---- MODULE Spec2Model ----
(***************************************************************************)
(* A model of sotodlib's preprocessing core (sotodlib/preprocess/pcore.py) *)
(* and of the driver that calls it (site_pipeline/preprocess_tod.py):      *)
(*   - the stage registry and the validated Pipeline list,                 *)
(*   - Pipeline.run with its full-frame accumulator,                       *)
(*   - the reconciliation engine _expand / update_full_aman.               *)
(* Indices are 0-based as in the Python source; a Python list or numpy     *)
(* vector is a TLA+ sequence, so element i of the source is s[i+1] here.   *)
(***************************************************************************)
EXTENDS Integers, Sequences, FiniteSets, TLC

VARIABLES
    ex,        \* the reconciliation engine: one _expand call and its result
    reg,       \* Pipeline.PIPELINE, the registry: name -> stage class
    pipe,      \* a Pipeline (the list's elements), or NoPipe before/without one
    lastOp,    \* the last registry / list operation and how it ended
    run,       \* one Pipeline.run activation
    met,       \* one gen_metric call of a flag-fraction stage and its result
    drv,       \* the site-pipeline driver: its groups, counters and files
    stg        \* one stage built from a configuration, and a base hook called on it

vars == <<ex, reg, pipe, lastOp, run, met, drv, stg>>

(***************************************************************************)
(* Bounds of the model.                                                    *)
(***************************************************************************)
\* number of samples of the full frame
MaxSamps == 3
\* number of stages of a Pipeline that is run
MaxStages == 3
\* length of a Pipeline under list mutation, and of an argument list
MaxLen == 2

\* length of an axis a product declares beside the entity and sample axes
MaxBins == 2

\* entity labels of the full frame, in the full frame's order
AllDets == <<"d0", "d1", "d2">>
\* offset of the full frame's sample axis
FullOffset == 2
\* an entity label the full frame does not have
OtherDet == "d9"

(***************************************************************************)
(* Sequence helpers.                                                       *)
(***************************************************************************)
Range(s) == {s[i] : i \in DOMAIN s}

\* s[i] of the source (0-based)
At(s, i) == s[i + 1]

\* range(n)
PyRange(n) == [i \in 1..n |-> i - 1]

\* the position (1-based) of x in s, s having no duplicates
PosOf(s, x) == CHOOSE i \in DOMAIN s : s[i] = x

RECURSIVE SeqSum(_)
SeqSum(s) == IF s = <<>> THEN 0 ELSE Head(s) + SeqSum(Tail(s))

\* the subsequence of s whose elements satisfy membership in keep
RECURSIVE Filter(_, _)
Filter(s, keep) ==
    IF s = <<>> THEN <<>>
    ELSE IF Head(s) \in keep THEN <<Head(s)>> \o Filter(Tail(s), keep)
    ELSE Filter(Tail(s), keep)

\* every subsequence of s (order kept)
SubSeqs(s) == {Filter(s, keep) : keep \in SUBSET Range(s)}

(***************************************************************************)
(* Axes (sotodlib.core.axisman, not part of the files modelled here: the   *)
(* entity axis is a LabelAxis, the sample axis an OffsetAxis).             *)
(***************************************************************************)
LabelAxis(vals) == [type |-> "label", vals |-> vals]

OffsetAxis(count, offset) == [type |-> "offset", count |-> count, offset |-> offset]

IndexAxis(count) == [type |-> "index", count |-> count]

AxisCount(ax) == IF ax.type = "label" THEN Len(ax.vals) ELSE ax.count

\* index expressions: a numpy index vector, slice(start, stop), slice(None)
IdxArr(s) == [kind |-> "array", idx |-> s]

Slice(a, b) == [kind |-> "slice", start |-> a, stop |-> b]

SliceNone == [kind |-> "slice_none"]

\* the indices an index expression selects in a dimension of length n
Resolve(ix, n) ==
    IF ix.kind = "array" THEN ix.idx
    ELSE IF ix.kind = "slice" THEN [i \in 1..(ix.stop - ix.start) |-> ix.start + i - 1]
    ELSE PyRange(n)

\* LabelAxis.intersection(friend, return_slices=True): the common labels in
\* self's order, with their indices in self (i0) and in friend (i1)
LabelIntersection(self, friend) ==
    LET common == Filter(self.vals, Range(friend.vals))
    IN [ax |-> LabelAxis(common),
        i0 |-> IdxArr([k \in DOMAIN common |-> PosOf(self.vals, common[k]) - 1]),
        i1 |-> IdxArr([k \in DOMAIN common |-> PosOf(friend.vals, common[k]) - 1])]

\* OffsetAxis.intersection(friend, return_slices=True)
OffsetIntersection(self, friend) ==
    LET hi(a, b) == IF a > b THEN a ELSE b
        lo(a, b) == IF a < b THEN a ELSE b
        offset == hi(self.offset, friend.offset)
        count == hi(lo(self.count + self.offset, friend.count + friend.offset) - offset, 0)
    IN [ax |-> OffsetAxis(count, offset),
        i0 |-> Slice(offset - self.offset, count + offset - self.offset),
        i1 |-> Slice(offset - friend.offset, count + offset - friend.offset)]

(***************************************************************************)
(* Values a container field can hold.                                      *)
(***************************************************************************)
Err(exc) == [kind |-> "error", exc |-> exc]

IsErr(v) == v.kind = "error"

Scalar(v) == [kind |-> "scalar", val |-> v]

\* the index tuples of an array of the given shape
Tuples(shape) ==
    {t \in [1..Len(shape) -> 0..SeqSum(shape)] : \A k \in 1..Len(shape) : t[k] < shape[k]}

\* numpy.ndarray: data maps each index tuple to a number
Dense(asg, shape, data) ==
    [kind |-> "ndarray", asg |-> asg, shape |-> shape, data |-> data]

\* so3g Ranges over count samples: ivals are the flagged intervals [lo, hi),
\* sorted, disjoint and not touching
RangesOf(count, ivals) == [count |-> count, ivals |-> ivals]

RangesVal(asg, r) == [kind |-> "Ranges", asg |-> asg, r |-> r]

\* so3g RangesMatrix: one Ranges per row
RangesMatrixVal(asg, shape, ranges) ==
    [kind |-> "RangesMatrix", asg |-> asg, shape |-> shape, ranges |-> ranges]

\* scipy csr_array in canonical form
Csr(asg, shape, indptr, indices, data) ==
    [kind |-> "csr_array", asg |-> asg, shape |-> shape,
     indptr |-> indptr, indices |-> indices, data |-> data]

\* AxisManager: axes by name, fields in insertion order
AxisManager(axes, fields) == [kind |-> "AxisManager", axes |-> axes, fields |-> fields]

Field(name, val) == [name |-> name, val |-> val]

FieldNames(c) == {c.fields[i].name : i \in DOMAIN c.fields}

GetField(c, name) == c.fields[CHOOSE i \in DOMAIN c.fields : c.fields[i].name = name].val

\* Ranges.mask(): the boolean vector of the intervals
Mask(r) ==
    [i \in 1..r.count |->
        \E k \in DOMAIN r.ivals : r.ivals[k][1] <= i - 1 /\ i - 1 < r.ivals[k][2]]

\* Ranges.from_mask(m): the maximal runs of TRUE, as intervals [lo, hi)
RECURSIVE RunsFrom(_, _)
RunsFrom(m, i) ==
    IF i > Len(m) THEN <<>>
    ELSE IF ~m[i] THEN RunsFrom(m, i + 1)
    ELSE LET j == CHOOSE e \in i..Len(m) :
                      /\ \A q \in i..e : m[q]
                      /\ (e = Len(m) \/ ~m[e + 1])
         IN <<<<i - 1, j>>>> \o RunsFrom(m, j + 1)

FromMask(m) == RangesOf(Len(m), RunsFrom(m, 1))

\* the elements of a set of integers in increasing order
RECURSIVE SortedSeq(_)
SortedSeq(S) ==
    IF S = {} THEN <<>>
    ELSE LET lo == CHOOSE x \in S : \A y \in S : x <= y
         IN <<lo>> \o SortedSeq(S \ {lo})

RECURSIVE Concat(_)
Concat(ss) == IF ss = <<>> THEN <<>> ELSE Head(ss) \o Concat(Tail(ss))

\* row index of every stored entry of a csr_array:
\* np.repeat(np.arange(shape[0]), np.diff(indptr))
CsrRows(arr) ==
    Concat([r \in 1..arr.shape[1] |->
               [q \in 1..(arr.indptr[r + 1] - arr.indptr[r]) |-> r - 1]])

\* csr_array((v, (r, c)), shape=shape): the canonical compressed form of the
\* coordinate triples (one triple per cell here)
CsrFromCoo(asg, v, r, c, shape) ==
    IF \E q \in DOMAIN v : r[q] < 0 \/ r[q] >= shape[1] \/ c[q] < 0 \/ c[q] >= shape[2]
    THEN Err("ValueError")
    ELSE LET colsOf(row) == SortedSeq({c[q] : q \in {p \in DOMAIN v : r[p] = row}})
             valAt(row, col) == v[CHOOSE q \in DOMAIN v : r[q] = row /\ c[q] = col]
             rowCols == [row \in 1..shape[1] |-> colsOf(row - 1)]
         IN Csr(asg, shape,
                [i \in 1..(shape[1] + 1) |->
                    Cardinality({q \in DOMAIN v : r[q] < i - 1})],
                Concat(rowCols),
                Concat([row \in 1..shape[1] |->
                           [q \in DOMAIN rowCols[row] |-> valAt(row - 1, rowCols[row][q])]]))

(***************************************************************************)
(* The reconciliation engine (pcore.py, _zeros_cls .. update_full_aman).   *)
(***************************************************************************)
\* wrap_new's shape: the count of the axis each dimension is assigned to
ShapeOf(axes, asg) == [k \in DOMAIN asg |-> AxisCount(axes[asg[k]])]

\* _zeros_cls that falls back on numpy.zeros for a kind it does not know
ZerosClsFallback(item, asg, shape) ==
    IF item.kind = "RangesMatrix"
    THEN RangesMatrixVal(asg, shape, [i \in 1..shape[1] |-> RangesOf(shape[2], <<>>)])
    ELSE IF item.kind = "Ranges"
    THEN (IF Len(shape) = 1 THEN RangesVal(asg, RangesOf(shape[1], <<>>))
          ELSE Err("AssertionError"))
    ELSE IF item.kind = "csr_array"
    THEN Csr(asg, shape, [i \in 1..(shape[1] + 1) |-> 0], <<>>, <<>>)
    ELSE Dense(asg, shape, [t \in Tuples(shape) |-> 0])

\* _zeros_cls whose dense arrays are filled with ones
ZerosClsOnes(item, asg, shape) ==
    IF item.kind = "ndarray" THEN Dense(asg, shape, [t \in Tuples(shape) |-> 1])
    ELSE IF item.kind = "RangesMatrix"
    THEN RangesMatrixVal(asg, shape, [i \in 1..shape[1] |-> RangesOf(shape[2], <<>>)])
    ELSE IF item.kind = "Ranges"
    THEN (IF Len(shape) = 1 THEN RangesVal(asg, RangesOf(shape[1], <<>>))
          ELSE Err("AssertionError"))
    ELSE IF item.kind = "csr_array"
    THEN Csr(asg, shape, [i \in 1..(shape[1] + 1) |-> 0], <<>>, <<>>)
    ELSE Err("ValueError")

\* _zeros_cls(item)(shape): a zero value of item's kind
ZerosCls(item, asg, shape) ==
    IF item.kind = "ndarray" THEN Dense(asg, shape, [t \in Tuples(shape) |-> 0])
    ELSE IF item.kind = "RangesMatrix"
    THEN RangesMatrixVal(asg, shape, [i \in 1..shape[1] |-> RangesOf(shape[2], <<>>)])
    ELSE IF item.kind = "Ranges"
    THEN (IF Len(shape) = 1 THEN RangesVal(asg, RangesOf(shape[1], <<>>))
          ELSE Err("AssertionError"))
    ELSE IF item.kind = "csr_array"
    THEN Csr(asg, shape, [i \in 1..(shape[1] + 1) |-> 0], <<>>, <<>>)
    ELSE Err("ValueError")

\* _reform_csr_array without the column shift (c1 = arr.indices)
ReformCsrArrayNoShift(arr, oidx, nidx, shape) ==
    LET n0 == Resolve(nidx[1], arr.shape[1])
        o0 == Resolve(oidx[1], shape[1])
        mapped == {n0[p] : p \in DOMAIN n0}
        row_map(n) == o0[PosOf(n0, n)]
        rows == CsrRows(arr)
    IN IF \E r \in 0..(arr.shape[1] - 1) : r \notin mapped
       THEN Err("KeyError")
       ELSE CsrFromCoo(arr.asg, arr.data,
                       [q \in DOMAIN rows |-> row_map(rows[q])],
                       arr.indices, shape)

\* _reform_csr_array(arr, oidx, nidx, shape)
ReformCsrArray(arr, oidx, nidx, shape) ==
    LET n0 == Resolve(nidx[1], arr.shape[1])
        o0 == Resolve(oidx[1], shape[1])
        mapped == {n0[p] : p \in DOMAIN n0}
        row_map(n) == o0[PosOf(n0, n)]
        col_shift == oidx[2].start - nidx[2].start
        rows == CsrRows(arr)
    IN IF \E r \in 0..(arr.shape[1] - 1) : r \notin mapped
       THEN Err("KeyError")
       ELSE CsrFromCoo(arr.asg, arr.data,
                       [q \in DOMAIN rows |-> row_map(rows[q])],
                       [q \in DOMAIN arr.indices |-> arr.indices[q] + col_shift],
                       shape)

\* _ranges_match(o, n, [oidx], [nidx]): omsk[oidx] = nmsk[nidx], re-encoded
RangesMatch(o, n, oidx, nidx) ==
    LET omsk == Mask(o)
        nmsk == Mask(n)
        O == Resolve(oidx, o.count)
        N == Resolve(nidx, n.count)
    IN FromMask([i \in DOMAIN omsk |->
                    IF i - 1 \in Range(O) THEN nmsk[N[PosOf(O, i - 1)] + 1]
                    ELSE omsk[i]])

\* _ranges_matrix_match(o, n, oidx, nidx): rows of n aligned into rows of o
RangesMatrixMatch(o, n, oidx, nidx) ==
    IF Len(oidx) > 2 \/ Len(oidx) < 2 \/ oidx[1].kind # "array" THEN Err("TypeError")
    ELSE LET O == oidx[1].idx
             N == nidx[1].idx
         IN [o EXCEPT !.ranges =
                [i \in DOMAIN o.ranges |->
                    IF i - 1 \in Range(O)
                    THEN RangesMatch(o.ranges[i], n.ranges[N[PosOf(O, i - 1)] + 1],
                                     oidx[2], nidx[2])
                    ELSE o.ranges[i]]]

\* out[k][oidx] = v[nidx] for numpy arrays: index vectors are paired up
\* element by element, slices range freely
DenseAssign(o, v, oidx, nidx) ==
    LET rank == Len(o.shape)
        O == [k \in 1..rank |-> Resolve(oidx[k], o.shape[k])]
        N == [k \in 1..rank |-> Resolve(nidx[k], v.shape[k])]
        adv == {k \in 1..rank : oidx[k].kind = "array"}
        npos == IF adv = {} THEN 1 ELSE Len(O[CHOOSE k \in adv : TRUE])
        hit(t, p) == /\ \A k \in adv : O[k][p] = t[k]
                     /\ \A k \in (1..rank) \ adv : t[k] \in Range(O[k])
        src(t, p) == [k \in 1..rank |->
                         IF k \in adv THEN N[k][p] ELSE N[k][PosOf(O[k], t[k])]]
    IN IF \E k \in 1..rank : Len(O[k]) # Len(N[k]) THEN Err("ValueError")
       ELSE [o EXCEPT !.data =
                [t \in DOMAIN o.data |->
                    IF \E p \in 1..npos : hit(t, p)
                    THEN v.data[src(t, CHOOSE p \in 1..npos : hit(t, p))]
                    ELSE o.data[t]]]

\* the index mappings _expand computes first (full side fs_*, sub side ns_*)
ExpandIdx(new, full) ==
    LET hasD == "dets" \in DOMAIN new.axes
        hasS == "samps" \in DOMAIN new.axes
        di == LabelIntersection(full.axes.dets, new.axes.dets)
        si == OffsetIntersection(full.axes.samps, new.axes.samps)
    IN [fs_dets |-> IF hasD THEN di.i0 ELSE IdxArr(PyRange(AxisCount(full.axes.dets))),
        ns_dets |-> IF hasD THEN di.i1 ELSE SliceNone,
        fs_samps |-> IF hasS THEN si.i0 ELSE SliceNone,
        ns_samps |-> IF hasS THEN si.i1 ELSE SliceNone]

\* the axes of _expand's output container
ExpandAxes(new, full) ==
    LET kept == {k \in DOMAIN full.axes : k \in DOMAIN new.axes \cup {"dets", "samps"}}
    IN [a \in kept \cup DOMAIN new.axes |->
           IF a \in kept THEN full.axes[a] ELSE new.axes[a]]

\* one non-container, non-scalar field of new, embedded in the output's frame
ExpandValue(v, new, full) ==
    LET ix == ExpandIdx(new, full)
        axes == ExpandAxes(new, full)
        asg == v.asg
        z == ZerosCls(v, asg, ShapeOf(axes, asg))
        oidx == [k \in DOMAIN asg |->
                    IF asg[k] = "dets" THEN ix.fs_dets
                    ELSE IF asg[k] = "samps" THEN ix.fs_samps ELSE SliceNone]
        nidx == [k \in DOMAIN asg |->
                    IF asg[k] = "dets" THEN ix.ns_dets
                    ELSE IF asg[k] = "samps" THEN ix.ns_samps ELSE SliceNone]
    IN IF IsErr(z) THEN z
       ELSE IF z.kind = "RangesMatrix"
       THEN (IF asg[Len(asg)] # "samps" THEN Err("AssertionError")
             ELSE RangesMatrixMatch(z, v, oidx, nidx))
       ELSE IF z.kind = "Ranges"
       THEN (IF asg[1] # "samps" THEN Err("AssertionError")
             ELSE RangesVal(asg, RangesMatch(z.r, v.r, oidx[1], nidx[1])))
       ELSE IF z.kind = "csr_array"
       THEN (IF asg # <<"dets", "samps">> THEN Err("AssertionError")
             ELSE ReformCsrArray(v, oidx, nidx, z.shape))
       ELSE DenseAssign(z, v, oidx, nidx)

\* the 'valid' matrix with every row marked, whatever the entity mapping
ValidMatrixAllRows(new, full) ==
    LET ix == ExpandIdx(new, full)
        count == AxisCount(full.axes.samps)
        inS == Range(Resolve(ix.fs_samps, count))
        v == FromMask([i \in 1..count |-> i - 1 \in inS])
    IN RangesMatrixVal(<<"dets", "samps">>, <<AxisCount(full.axes.dets), count>>,
           [i \in 1..AxisCount(full.axes.dets) |-> v])

\* the 'valid' matrix with the rows taken from the sub-side entity mapping
ValidMatrixSubRows(new, full) ==
    LET ix == ExpandIdx(new, full)
        count == AxisCount(full.axes.samps)
        x == RangesOf(count, <<>>)
        inS == Range(Resolve(ix.fs_samps, count))
        v == FromMask([i \in 1..count |-> i - 1 \in inS])
    IN RangesMatrixVal(<<"dets", "samps">>, <<AxisCount(full.axes.dets), count>>,
           [i \in 1..AxisCount(full.axes.dets) |->
               IF ix.ns_dets.kind = "array" /\ i - 1 \in Range(ix.ns_dets.idx) THEN v ELSE x])

\* the 'valid' RangesMatrix of _expand: row i is the full-side sample mapping
\* when i is in the full-side entity mapping, and empty otherwise
ValidMatrix(new, full) ==
    LET ix == ExpandIdx(new, full)
        count == AxisCount(full.axes.samps)
        x == RangesOf(count, <<>>)
        inS == Range(Resolve(ix.fs_samps, count))
        v == FromMask([i \in 1..count |-> i - 1 \in inS])
    IN RangesMatrixVal(<<"dets", "samps">>, <<AxisCount(full.axes.dets), count>>,
           [i \in 1..AxisCount(full.axes.dets) |->
               IF i - 1 \in Range(ix.fs_dets.idx) THEN v ELSE x])

\* _expand(new, full, wrap_valid): a container, or the exception raised.
\* ExpandFields is the loop over new._fields from field i on: the fields
\* wrapped into out, and the exception that ended the loop, if any.
NoErr == [kind |-> "none"]

RECURSIVE Expand(_, _, _), ExpandFields(_, _, _)
ExpandFields(new, full, i) ==
    IF i > Len(new.fields) THEN [fields |-> <<>>, err |-> NoErr]
    ELSE LET k == new.fields[i].name
             v == new.fields[i].val
             e == IF v.kind = "AxisManager" THEN Expand(v, full, TRUE)
                  ELSE IF v.kind = "scalar" THEN v
                  ELSE ExpandValue(v, new, full)
         IN IF IsErr(e) THEN [fields |-> <<>>, err |-> e]
            ELSE LET rest == ExpandFields(new, full, i + 1)
                 IN [fields |-> <<Field(k, e)>> \o rest.fields, err |-> rest.err]

Expand(new, full, wrap_valid) ==
    LET fs == ExpandFields(new, full, 1)
    IN IF IsErr(fs.err) THEN fs.err
       ELSE AxisManager(ExpandAxes(new, full),
                IF wrap_valid
                THEN Append(fs.fields, Field("valid", ValidMatrix(new, full)))
                ELSE fs.fields)

\* update_full_aman that wraps every product field again, present or not
UpdateFullAmanOverwrite(proc_aman, full, wrap_valid) ==
    LET news == [i \in DOMAIN proc_aman.fields |->
                    Field(proc_aman.fields[i].name,
                          Expand(proc_aman.fields[i].val, full, wrap_valid))]
        kept == SelectSeq(full.fields, LAMBDA f : f.name \notin FieldNames(proc_aman))
    IN IF \E i \in DOMAIN proc_aman.fields : proc_aman.fields[i].val.kind # "AxisManager"
       THEN [full |-> full, err |-> Err("AssertionError")]
       ELSE [full |-> [full EXCEPT !.fields = kept \o news], err |-> NoErr]

\* update_full_aman that wraps the product's field as it is, without _expand
UpdateFullAmanNoExpand(proc_aman, full, wrap_valid) ==
    LET news == SelectSeq(proc_aman.fields, LAMBDA f : f.name \notin FieldNames(full))
    IN [full |-> [full EXCEPT !.fields = @ \o news], err |-> NoErr]

\* update_full_aman(proc_aman, full, wrap_valid): full afterwards, and the
\* exception that ended the loop over proc_aman._fields, if any
RECURSIVE UpdateFrom(_, _, _, _)
\* the expanded field is not wrapped into full
UpdateWrapDrop(proc_aman, full, wrap_valid, i, e) ==
    IF IsErr(e) THEN [full |-> full, err |-> e]
    ELSE UpdateFrom(proc_aman, full, wrap_valid, i + 1)

\* lines 327-330: full.wrap(fld, e) for the expanded field e, then the next field
UpdateWrap(proc_aman, full, wrap_valid, i, e) ==
    IF IsErr(e) THEN [full |-> full, err |-> e]
    ELSE UpdateFrom(proc_aman,
                    [full EXCEPT !.fields = Append(@, Field(proc_aman.fields[i].name, e))],
                    wrap_valid, i + 1)

\* the loop of update_full_aman without the assert of line 327: a field that
\* is not a container is wrapped into full as it is
UpdateFromNoAssert(proc_aman, full, wrap_valid, i) ==
    IF i > Len(proc_aman.fields) THEN [full |-> full, err |-> NoErr]
    ELSE IF proc_aman.fields[i].name \in FieldNames(full)
    THEN UpdateFrom(proc_aman, full, wrap_valid, i + 1)
    ELSE IF proc_aman.fields[i].val.kind # "AxisManager"
    THEN UpdateFrom(proc_aman, [full EXCEPT !.fields = Append(@, proc_aman.fields[i])],
                    wrap_valid, i + 1)
    ELSE UpdateWrap(proc_aman, full, wrap_valid, i,
                    Expand(proc_aman.fields[i].val, full, wrap_valid))

\* lines 325-331: the loop over proc_aman._fields, from field i on
UpdateFrom(proc_aman, full, wrap_valid, i) ==
    IF i > Len(proc_aman.fields) THEN [full |-> full, err |-> NoErr]
    ELSE IF proc_aman.fields[i].name \in FieldNames(full)
    THEN UpdateFrom(proc_aman, full, wrap_valid, i + 1)
    ELSE IF proc_aman.fields[i].val.kind # "AxisManager"
    THEN [full |-> full, err |-> Err("AssertionError")]
    ELSE UpdateWrap(proc_aman, full, wrap_valid, i,
                    Expand(proc_aman.fields[i].val, full, wrap_valid))

UpdateFullAman(proc_aman, full, wrap_valid) == UpdateFrom(proc_aman, full, wrap_valid, 1)

(***************************************************************************)
(* AxisManager.restrict (sotodlib.core.axisman): narrows an axis and every *)
(* field assigned to it; idx lists the indices kept, in the axis's order.  *)
(***************************************************************************)
\* the counts of a value after dimension-wise selection
TakeShape(v, axis, idx) ==
    [k \in DOMAIN v.shape |-> IF v.asg[k] = axis THEN Len(idx) ELSE v.shape[k]]

TakeDense(v, axis, idx) ==
    LET shape == TakeShape(v, axis, idx)
    IN Dense(v.asg, shape,
             [t \in Tuples(shape) |->
                 v.data[[k \in DOMAIN shape |->
                            IF v.asg[k] = axis THEN idx[t[k] + 1] ELSE t[k]]]])

TakeRanges(r, idx) ==
    LET m == Mask(r) IN FromMask([i \in DOMAIN idx |-> m[idx[i] + 1]])

TakeRangesMatrix(v, axis, idx) ==
    IF v.asg[1] = axis
    THEN RangesMatrixVal(v.asg, TakeShape(v, axis, idx),
                         [i \in DOMAIN idx |-> v.ranges[idx[i] + 1]])
    ELSE IF v.asg[2] = axis
    THEN RangesMatrixVal(v.asg, TakeShape(v, axis, idx),
                         [i \in DOMAIN v.ranges |-> TakeRanges(v.ranges[i], idx)])
    ELSE v

TakeCsr(v, axis, idx) ==
    LET rows == CsrRows(v)
        rowIdx == IF v.asg[1] = axis THEN idx ELSE PyRange(v.shape[1])
        colIdx == IF v.asg[2] = axis THEN idx ELSE PyRange(v.shape[2])
        keep == SortedSeq({q \in DOMAIN v.data :
                              rows[q] \in Range(rowIdx) /\ v.indices[q] \in Range(colIdx)})
    IN CsrFromCoo(v.asg,
                  [q \in DOMAIN keep |-> v.data[keep[q]]],
                  [q \in DOMAIN keep |-> PosOf(rowIdx, rows[keep[q]]) - 1],
                  [q \in DOMAIN keep |-> PosOf(colIdx, v.indices[keep[q]]) - 1],
                  TakeShape(v, axis, idx))

RestrictAxis(ax, idx) ==
    IF ax.type = "label" THEN LabelAxis([i \in DOMAIN idx |-> ax.vals[idx[i] + 1]])
    ELSE IF ax.type = "offset"
    THEN OffsetAxis(Len(idx), IF idx = <<>> THEN ax.offset ELSE ax.offset + idx[1])
    ELSE IndexAxis(Len(idx))

RECURSIVE RestrictIdx(_, _, _)
RestrictIdx(c, axis, idx) ==
    IF axis \notin DOMAIN c.axes THEN c
    ELSE AxisManager(
             [a \in DOMAIN c.axes |->
                 IF a = axis THEN RestrictAxis(c.axes[a], idx) ELSE c.axes[a]],
             [i \in DOMAIN c.fields |->
                 LET v == c.fields[i].val
                 IN Field(c.fields[i].name,
                          IF v.kind = "AxisManager" THEN RestrictIdx(v, axis, idx)
                          ELSE IF v.kind = "scalar" THEN v
                          ELSE IF axis \notin Range(v.asg) THEN v
                          ELSE IF v.kind = "ndarray" THEN TakeDense(v, axis, idx)
                          ELSE IF v.kind = "Ranges"
                          THEN RangesVal(v.asg, TakeRanges(v.r, idx))
                          ELSE IF v.kind = "RangesMatrix" THEN TakeRangesMatrix(v, axis, idx)
                          ELSE TakeCsr(v, axis, idx))])

\* restrict('dets', labels): the labels kept, in the container's own order
RestrictDets(c, labels) ==
    LET vals == c.axes.dets.vals
    IN RestrictIdx(c, "dets",
           Filter(PyRange(Len(vals)), {i \in 0..(Len(vals) - 1) : vals[i + 1] \in Range(labels)}))

\* restrict('samps', (start, stop)), in absolute sample numbers
RestrictSamps(c, start, stop) ==
    LET off == c.axes.samps.offset
    IN RestrictIdx(c, "samps", [i \in 1..(stop - start) |-> start - off + i - 1])

(***************************************************************************)
(* The stage registry and the Pipeline list (pcore.py, _Preprocess.register *)
(* and class Pipeline up to __setitem__).                                  *)
(***************************************************************************)
\* stage classes (subclasses of _Preprocess) and their name attribute; two
\* classes may carry the same name
Classes == {"StageA", "StageA2"}

ClassName(cls) == "a"

\* a configuration name no class carries
UnknownName == "zz"

\* the value of item.get("name") when the mapping has no usable 'name'
None == "None"

\* an instantiated stage: via tells whether it was passed in ready-made
\* ("inst") or built by _check_item from a configuration mapping ("dict")
Stage(cls, via) == [kind |-> "stage", cls |-> cls, via |-> via]

\* what a caller can hand to Pipeline(...), append, insert, extend, __setitem__
Items ==
    {Stage(c, "inst") : c \in Classes}
    \cup {[kind |-> "dict", name |-> n] : n \in {"a", UnknownName, None}}
    \cup {[kind |-> "str"], [kind |-> "list"]}

NoPipe == [made |-> FALSE, items |-> <<>>]

NoOp == [op |-> "none"]

RunIdle == [pc |-> "idle"]

ExIdle == [pc |-> "idle"]

MetIdle == [pc |-> "idle"]

DrvIdle == [pc |-> "idle"]

StgIdle == [pc |-> "idle"]

\* dict.get on the registry
RegGet(registry, name) == IF name \in DOMAIN registry THEN registry[name] ELSE None

\* _Preprocess.register with the duplicate test dropped
RegisterOverwrite(registry, cls) ==
    [reg |-> [n \in DOMAIN registry \cup {ClassName(cls)} |->
                 IF n = ClassName(cls) THEN cls ELSE registry[n]],
     result |-> "ok"]

\* _Preprocess.register(process_class): the registry afterwards and the outcome
Register(registry, cls) ==
    LET name == ClassName(cls)
    IN IF RegGet(registry, name) = None
       THEN [reg |-> [n \in DOMAIN registry \cup {name} |->
                         IF n = name THEN cls ELSE registry[n]],
             result |-> "ok"]
       ELSE [reg |-> registry, result |-> "ValueError"]

\* _check_item without its final else: whatever is no mapping is returned
CheckItemNoElse(registry, item) ==
    IF item.kind = "dict"
    THEN (IF item.name = None \/ RegGet(registry, item.name) = None
          THEN Err("ValueError")
          ELSE Stage(RegGet(registry, item.name), "dict"))
    ELSE item

\* _check_item without the 'cls is None' test: None gets called
CheckItemNoLookupTest(registry, item) ==
    IF item.kind = "stage" THEN item
    ELSE IF item.kind = "dict"
    THEN (IF item.name = None THEN Err("ValueError")
          ELSE IF RegGet(registry, item.name) = None THEN Err("TypeError")
          ELSE Stage(RegGet(registry, item.name), "dict"))
    ELSE Err("ValueError")

\* Pipeline._check_item(item): the stage to store, or the exception raised
CheckItem(registry, item) ==
    IF item.kind = "stage" THEN item
    ELSE IF item.kind = "dict"
    THEN (IF item.name = None THEN Err("ValueError")
          ELSE IF RegGet(registry, item.name) = None THEN Err("ValueError")
          ELSE Stage(RegGet(registry, item.name), "dict"))
    ELSE Err("ValueError")

\* [self._check_item(item) for item in modules]: the list, or the first
\* exception raised
RECURSIVE CheckAll(_, _)
CheckAll(registry, modules) ==
    IF modules = <<>> THEN [items |-> <<>>, err |-> NoErr]
    ELSE LET e == CheckItem(registry, Head(modules))
         IN IF IsErr(e) THEN [items |-> <<>>, err |-> e]
            ELSE LET rest == CheckAll(registry, Tail(modules))
                 IN [items |-> <<e>> \o rest.items, err |-> rest.err]

ResultOf(e) == IF IsErr(e) THEN e.exc ELSE "ok"

\* list.insert(index, x): an index past the end appends
ListInsert(s, index, x) ==
    LET i == IF index > Len(s) THEN Len(s) ELSE index
    IN SubSeq(s, 1, i) \o <<x>> \o SubSeq(s, i + 1, Len(s))

SeqsUpTo(S, n) == UNION {[1..k -> S] : k \in 0..n}

\* _Preprocess.register(cls), at module load or later
DoRegister ==
    \E cls \in Classes :
        LET r == Register(reg, cls)
        IN /\ reg' = r.reg
           /\ lastOp' = [op |-> "register", cls |-> cls, result |-> r.result]
           /\ UNCHANGED <<ex, pipe, run, met, drv, stg>>

\* Pipeline(modules)
Construct ==
    \E modules \in SeqsUpTo(Items, MaxLen) :
        LET r == CheckAll(reg, modules)
        IN /\ ~pipe.made
           /\ pipe' = IF IsErr(r.err) THEN pipe ELSE [made |-> TRUE, items |-> r.items]
           /\ lastOp' = [op |-> "construct", items |-> modules, result |-> ResultOf(r.err)]
           /\ UNCHANGED <<ex, reg, run, met, drv, stg>>

\* Pipeline.append(item)
PipeAppend ==
    \E item \in Items :
        LET e == CheckItem(reg, item)
        IN /\ pipe.made /\ Len(pipe.items) < MaxLen
           /\ pipe' = IF IsErr(e) THEN pipe ELSE [pipe EXCEPT !.items = Append(@, e)]
           /\ lastOp' = [op |-> "append", items |-> <<item>>, result |-> ResultOf(e)]
           /\ UNCHANGED <<ex, reg, run, met, drv, stg>>

\* Pipeline.insert(index, item)
PipeInsert ==
    \E item \in Items, index \in 0..MaxLen :
        LET e == CheckItem(reg, item)
        IN /\ pipe.made /\ Len(pipe.items) < MaxLen
           /\ pipe' = IF IsErr(e) THEN pipe
                      ELSE [pipe EXCEPT !.items = ListInsert(@, index, e)]
           /\ lastOp' = [op |-> "insert", items |-> <<item>>, result |-> ResultOf(e)]
           /\ UNCHANGED <<ex, reg, run, met, drv, stg>>

\* Pipeline.__setitem__(index, item) with an integer index: the item is
\* checked first, then list.__setitem__ checks the index
PipeSetItem ==
    \E item \in Items, index \in 0..MaxLen :
        LET e == CheckItem(reg, item)
            res == IF IsErr(e) THEN e.exc
                   ELSE IF index >= Len(pipe.items) THEN "IndexError" ELSE "ok"
        IN /\ pipe.made
           /\ pipe' = IF res = "ok" THEN [pipe EXCEPT !.items[index + 1] = e] ELSE pipe
           /\ lastOp' = [op |-> "setitem", items |-> <<item>>, result |-> res]
           /\ UNCHANGED <<ex, reg, run, met, drv, stg>>

\* Pipeline.__setitem__(slice, item): the item is checked as a single item,
\* and list.__setitem__ then refuses a stage, which is no iterable
PipeSetSlice ==
    \E item \in Items :
        LET e == CheckItem(reg, item)
        IN /\ pipe.made
           /\ pipe' = pipe
           /\ lastOp' = [op |-> "setslice", items |-> <<item>>,
                         result |-> IF IsErr(e) THEN e.exc ELSE "TypeError"]
           /\ UNCHANGED <<ex, reg, run, met, drv, stg>>

\* Pipeline.extend(index, other) with a plain iterable of items
PipeExtend ==
    \E other \in SeqsUpTo(Items, MaxLen) :
        LET r == CheckAll(reg, other)
        IN /\ pipe.made /\ Len(pipe.items) + Len(other) <= MaxLen
           /\ pipe' = IF IsErr(r.err) THEN pipe
                      ELSE [pipe EXCEPT !.items = @ \o r.items]
           /\ lastOp' = [op |-> "extend", items |-> other, result |-> ResultOf(r.err)]
           /\ UNCHANGED <<ex, reg, run, met, drv, stg>>

\* Pipeline.extend(index, other) with another Pipeline, whose elements passed
\* _check_item when they were stored: they are taken over unchecked
PipeExtendPipeline ==
    \E other \in SeqsUpTo({Stage(c, v) : c \in Classes, v \in {"inst", "dict"}}, 1) :
        /\ pipe.made /\ Len(pipe.items) + Len(other) <= MaxLen
        /\ \A i \in DOMAIN other : other[i].via = "dict" => RegGet(reg, ClassName(other[i].cls)) = other[i].cls
        /\ pipe' = [pipe EXCEPT !.items = @ \o other]
        /\ lastOp' = [op |-> "extend_pipeline", items |-> other, result |-> "ok"]
        /\ UNCHANGED <<ex, reg, run, met, drv, stg>>

\* Pipeline.extend(other), the call list.extend's signature suggests: the
\* override takes (index, other), so Python raises TypeError before the body
PipeExtendOneArg ==
    /\ pipe.made
    /\ pipe' = pipe
    /\ lastOp' = [op |-> "extend_one_arg", items |-> <<>>, result |-> "TypeError"]
    /\ UNCHANGED <<ex, reg, run, met, drv, stg>>

NextPipe ==
    \/ DoRegister
    \/ Construct
    \/ PipeAppend
    \/ PipeInsert
    \/ PipeSetItem
    \/ PipeSetSlice
    \/ PipeExtend
    \/ PipeExtendPipeline
    \/ PipeExtendOneArg

InitPipe == ex = ExIdle /\ reg = <<>> /\ pipe = NoPipe /\ lastOp = NoOp /\ run = RunIdle
    /\ met = MetIdle /\ drv = DrvIdle /\ stg = StgIdle

SpecPipe == InitPipe /\ [][NextPipe]_vars

(***************************************************************************)
(* Inputs of the reconciliation engine: a full-frame container F over      *)
(* AllDets and MaxSamps samples, and the sub-container S that restricting  *)
(* F to an entity subset and a sample range [a, b) leaves.                 *)
(***************************************************************************)
FullAxes == [dets |-> LabelAxis(AllDets), samps |-> OffsetAxis(MaxSamps, FullOffset)]

FullShape == <<Len(AllDets), MaxSamps>>

\* the number stored in cell t of the test matrix (distinct per cell)
CellVal(t) == t[1] * MaxSamps + t[2] + 1

\* F with the same nonzero cells held as a dense array, as a RangesMatrix of
\* flagged samples and as a csr_array, plus a scalar
FullFrame(cells) ==
    LET cs == SortedSeq({CellVal(t) : t \in cells})
    IN AxisManager(FullAxes,
        <<Field("arr", Dense(<<"dets", "samps">>, FullShape,
                   [t \in Tuples(FullShape) |-> IF t \in cells THEN CellVal(t) ELSE 0])),
          Field("flags", RangesMatrixVal(<<"dets", "samps">>, FullShape,
                   [i \in 1..FullShape[1] |->
                       FromMask([j \in 1..MaxSamps |-> <<i - 1, j - 1>> \in cells])])),
          Field("sp", CsrFromCoo(<<"dets", "samps">>, cs,
                   [q \in DOMAIN cs |-> (cs[q] - 1) \div MaxSamps],
                   [q \in DOMAIN cs |-> (cs[q] - 1) % MaxSamps], FullShape)),
          Field("n", Scalar(7))>>)

\* containers that declare only one of the two axes, or none
DetsOnlyFrame ==
    AxisManager([dets |-> LabelAxis(AllDets)],
        <<Field("per_det", Dense(<<"dets">>, <<Len(AllDets)>>,
                   [t \in Tuples(<<Len(AllDets)>>) |-> t[1] + 1]))>>)

SampsOnlyFrame ==
    AxisManager([samps |-> OffsetAxis(MaxSamps, FullOffset)],
        <<Field("per_samp", Dense(<<"samps">>, <<MaxSamps>>,
                   [t \in Tuples(<<MaxSamps>>) |-> t[1] + 1])),
          Field("glitch", RangesVal(<<"samps">>,
                   FromMask([j \in 1..MaxSamps |-> j % 2 = 1])))>>)

NoAxesFrame == AxisManager(<<>>, <<Field("n", Scalar(7))>>)

\* a container that declares a third axis, and a dense array over the
\* entities and that axis
BinnedFrame ==
    AxisManager([dets |-> LabelAxis(AllDets), samps |-> FullAxes.samps,
                 bins |-> IndexAxis(MaxBins)],
        <<Field("hist", Dense(<<"dets", "bins">>, <<Len(AllDets), MaxBins>>,
                   [t \in Tuples(<<Len(AllDets), MaxBins>>) |-> t[1] * MaxBins + t[2] + 1]))>>)

FrameOf(variant, cells) ==
    IF variant = "both" THEN FullFrame(cells)
    ELSE IF variant = "dets_only" THEN DetsOnlyFrame
    ELSE IF variant = "samps_only" THEN SampsOnlyFrame
    ELSE IF variant = "binned" THEN BinnedFrame
    ELSE NoAxesFrame

\* the nonzero patterns tried: every single cell, and every combination of
\* four cells (two adjacent in a row, one per other row, one in the last column)
PatternCells == {<<0, 0>>, <<0, 1>>, <<1, 1>>, <<2, MaxSamps - 1>>}

CellSets == (SUBSET PatternCells) \cup {{t} : t \in Tuples(FullShape)}

\* restrict to the entities keep and the samples [a, b) (absolute numbers)
SubFrame(frame, keep, a, b) == RestrictSamps(RestrictDets(frame, keep), a, b)

ExpandInputs ==
    {[variant |-> "both", cells |-> c, wrap_valid |-> TRUE] : c \in CellSets}
    \cup {[variant |-> v, cells |-> {}, wrap_valid |-> w] :
             v \in {"both", "dets_only", "samps_only", "none", "binned"}, w \in BOOLEAN}

NoOut == [kind |-> "none"]

\* a container over the given axes holding, of a dense array, a RangesMatrix
\* and a csr_array with the same nonzero cells, the fields named
FrameOver(axes, cells, names) ==
    LET shape == <<AxisCount(axes.dets), AxisCount(axes.samps)>>
        cs == SortedSeq({CellVal(t) : t \in cells})
        all == <<Field("arr", Dense(<<"dets", "samps">>, shape,
                    [t \in Tuples(shape) |-> IF t \in cells THEN CellVal(t) ELSE 0])),
                 Field("flags", RangesMatrixVal(<<"dets", "samps">>, shape,
                    [i \in 1..shape[1] |->
                        FromMask([j \in 1..shape[2] |-> <<i - 1, j - 1>> \in cells])])),
                 Field("sp", CsrFromCoo(<<"dets", "samps">>, cs,
                    [q \in DOMAIN cs |-> (cs[q] - 1) \div MaxSamps],
                    [q \in DOMAIN cs |-> (cs[q] - 1) % MaxSamps], shape))>>
    IN AxisManager(axes, SelectSeq(all, LAMBDA f : f.name \in names))

\* axes of a sub-container that share no entity, or no sample, with full's
DisjointAxes ==
    {[dets |-> LabelAxis(<<OtherDet>>), samps |-> FullAxes.samps],
     [dets |-> LabelAxis(<<"d1">>), samps |-> OffsetAxis(1, FullOffset + MaxSamps)],
     [dets |-> LabelAxis(<<"d0", "d2">>), samps |-> OffsetAxis(1, FullOffset - 1)],
     [dets |-> LabelAxis(<<OtherDet>>), samps |-> OffsetAxis(1, FullOffset + MaxSamps)]}

\* sub-containers over such axes: one field kind each, with and without a
\* nonzero cell
DisjointSubs ==
    {FrameOver(axes, cells, {name}) :
        axes \in DisjointAxes, cells \in {{}, {<<0, 0>>}}, name \in {"arr", "flags", "sp"}}

\* a value of a kind _zeros_cls does not know (a list)
ListVal(asg, shape) ==
    [kind |-> "list", asg |-> asg, shape |-> shape, data |-> [t \in Tuples(shape) |-> 1]]

\* fields that break what _expand assumes of an assignment or of a kind: a
\* RangesMatrix whose last axis is not samps, a Ranges over dets, a csr_array
\* over (samps, dets), a list
BadFields ==
    {Field("flags", RangesMatrixVal(<<"samps", "dets">>, <<MaxSamps, 2>>,
               [i \in 1..MaxSamps |-> RangesOf(2, <<>>)])),
     Field("glitch", RangesVal(<<"dets">>, RangesOf(2, <<<<0, 1>>>>))),
     Field("sp", Csr(<<"samps", "dets">>, <<MaxSamps, 2>>,
               [i \in 1..(MaxSamps + 1) |-> 0], <<>>, <<>>)),
     Field("sp", Csr(<<"dets">>, <<2, MaxSamps>>, <<0, 0, 0>>, <<>>, <<>>)),
     Field("items", ListVal(<<"dets">>, <<2>>))}

\* sub-containers holding such a field: alone, after a well-formed field, and
\* inside a nested container
BadSubs ==
    LET axes == [dets |-> LabelAxis(<<"d0", "d2">>), samps |-> FullAxes.samps]
        good == Field("arr", Dense(<<"dets">>, <<2>>, [t \in Tuples(<<2>>) |-> t[1] + 1]))
    IN {AxisManager(axes, <<f>>) : f \in BadFields}
       \cup {AxisManager(axes, <<good, f>>) : f \in BadFields}
       \cup {AxisManager(axes, <<Field("inner", AxisManager(axes, <<f>>))>>) : f \in BadFields}

\* well-formed sub-containers that hold a container, one and two levels deep
NestedSubs ==
    LET axes == [dets |-> LabelAxis(<<"d0", "d2">>), samps |-> FullAxes.samps]
        leaf == FrameOver(axes, {<<0, 0>>}, {"arr"})
    IN {AxisManager(axes, <<Field("inner", leaf)>>),
        AxisManager(axes, <<Field("inner", AxisManager(axes, <<Field("innermost", leaf)>>))>>)}

\* sub-containers that are not cut out of F
OtherSubs ==
    {[variant |-> "disjoint", sub |-> sub] : sub \in DisjointSubs}
    \cup {[variant |-> "bad_field", sub |-> sub] : sub \in BadSubs}
    \cup {[variant |-> "nested", sub |-> sub] : sub \in NestedSubs}

ExpandInit ==
    \/ \E inp \in ExpandInputs, keep \in SubSeqs(AllDets),
          a \in FullOffset..(FullOffset + MaxSamps) :
       \E b \in a..(FullOffset + MaxSamps) :
           ex = [pc |-> "input", variant |-> inp.variant, cells |-> inp.cells,
                 keep |-> keep, a |-> a, b |-> b, wrap_valid |-> inp.wrap_valid,
                 sub |-> SubFrame(FrameOf(inp.variant, inp.cells), keep, a, b),
                 out |-> NoOut, upd |-> NoOut, back |-> NoOut]
    \/ \E inp \in OtherSubs, w \in BOOLEAN :
           ex = [pc |-> "input", variant |-> inp.variant, cells |-> {},
                 keep |-> AllDets, a |-> FullOffset, b |-> FullOffset + MaxSamps,
                 wrap_valid |-> w, sub |-> inp.sub,
                 out |-> NoOut, upd |-> NoOut, back |-> NoOut]

\* the call _expand(S, F, wrap_valid), and update_full_aman on an empty full
\* frame for a product that holds S as its field 'prod'
ExpandCall ==
    /\ ex.pc = "input"
    /\ ex' = [ex EXCEPT !.pc = "expanded",
                        !.out = Expand(ex.sub, FullFrame(ex.cells), ex.wrap_valid),
                        !.upd = UpdateFullAman(
                                    AxisManager(FullAxes, <<Field("prod", ex.sub)>>),
                                    AxisManager(FullAxes, <<>>), ex.wrap_valid)]
    /\ UNCHANGED <<reg, pipe, lastOp, run, met, drv, stg>>

\* the result restricted back to S's entities and samples
RestrictBack ==
    /\ ex.pc = "expanded"
    /\ ~IsErr(ex.out)
    /\ ex' = [ex EXCEPT !.pc = "restricted",
                        !.back = SubFrame(ex.out, ex.keep, ex.a, ex.b)]
    /\ UNCHANGED <<reg, pipe, lastOp, run, met, drv, stg>>

NextExpand == ExpandCall \/ RestrictBack

InitExpand == ExpandInit /\ reg = <<>> /\ pipe = NoPipe /\ lastOp = NoOp /\ run = RunIdle
    /\ met = MetIdle /\ drv = DrvIdle /\ stg = StgIdle

SpecExpand == InitExpand /\ [][NextExpand]_vars

(***************************************************************************)
(* Properties of the reconciliation engine (checked under SpecExpand).     *)
(***************************************************************************)
\* C5: reconciliation round trip. For S = F restricted to the entities keep
\* and the samples [a, b), _expand(S, F) completes, and restricted back to
\* (keep, [a, b)) its dense-array, RangesMatrix and csr_array fields (and the
\* scalar) equal those of S.
C5_RoundTrip ==
    (ex.pc \in {"expanded", "restricted"} /\ ex.variant = "both") =>
        /\ ~IsErr(ex.out)
        /\ ex.pc = "restricted" =>
              /\ ex.back.axes = ex.sub.axes
              /\ \A i \in DOMAIN ex.sub.fields : ex.back.fields[i] = ex.sub.fields[i]

\* a strict, non-empty entity subset and a strict, non-empty sample range, with
\* a nonzero cell inside the window and another outside it
C5_Witness ==
    /\ ex.pc = "restricted"
    /\ ex.variant = "both"
    /\ Len(ex.keep) \in 1..(Len(AllDets) - 1)
    /\ FullOffset < ex.a /\ ex.a < ex.b /\ ex.b <= FullOffset + MaxSamps
    /\ Len(GetField(ex.sub, "sp").data) > 0
    /\ Len(GetField(ex.sub, "sp").data) < Cardinality(ex.cells)
    /\ GetField(ex.sub, "flags").ranges[1].ivals # <<>>

\* C6: validity mask. After _expand with wrap_valid true the output's 'valid'
\* field spans all of full's entities and samples, and cell (entity, sample)
\* is valid exactly when the entity is one of sub's (every entity, when sub
\* declares no entity axis) and the sample is one of sub's (every sample, when
\* sub declares no sample axis).
C6_ValidMask ==
    (ex.pc = "expanded" /\ ex.wrap_valid /\ ~IsErr(ex.out)) =>
        /\ "valid" \in FieldNames(ex.out)
        /\ LET valid == GetField(ex.out, "valid")
               entityMapped(i) ==
                   "dets" \in DOMAIN ex.sub.axes =>
                       AllDets[i] \in Range(ex.sub.axes.dets.vals)
               sampleMapped(j) ==
                   "samps" \in DOMAIN ex.sub.axes =>
                       /\ ex.sub.axes.samps.offset <= FullOffset + j - 1
                       /\ FullOffset + j - 1 <
                              ex.sub.axes.samps.offset + ex.sub.axes.samps.count
           IN /\ valid.kind = "RangesMatrix"
              /\ valid.asg = <<"dets", "samps">>
              /\ Len(valid.ranges) = Len(AllDets)
              /\ \A i \in 1..Len(AllDets) :
                    /\ valid.ranges[i].count = MaxSamps
                    /\ \A j \in 1..MaxSamps :
                          Mask(valid.ranges[i])[j] <=> (entityMapped(i) /\ sampleMapped(j))

\* a strict, non-empty entity subset and sample range: some cells valid, some not
C6_Witness ==
    /\ ex.pc = "expanded"
    /\ ex.wrap_valid
    /\ ex.variant = "both"
    /\ Len(ex.keep) \in 1..(Len(AllDets) - 1)
    /\ ex.a < ex.b /\ ex.b - ex.a < MaxSamps
    /\ "valid" \in FieldNames(ex.out)

C9_RegistryUnique ==
    [][lastOp'.op = "register" =>
          LET name == ClassName(lastOp'.cls)
          IN IF name \in DOMAIN reg
             THEN lastOp'.result = "ValueError" /\ reg' = reg
             ELSE /\ lastOp'.result = "ok"
                  /\ DOMAIN reg' = DOMAIN reg \cup {name}
                  /\ reg'[name] = lastOp'.cls
                  /\ \A n \in DOMAIN reg : reg'[n] = reg[n]]_vars

\* a second class was refused and the first registration is still active
C9_Witness ==
    /\ lastOp.op = "register"
    /\ lastOp.result = "ValueError"
    /\ ClassName(lastOp.cls) \in DOMAIN reg
    /\ reg[ClassName(lastOp.cls)] # lastOp.cls

\* C10: configuration errors are fatal. Pipeline(modules), append and insert
\* raise ValueError when an item is a mapping without 'name', a mapping whose
\* name is not registered, or neither a stage nor a mapping; no Pipeline is
\* produced (or the list is left as it was) and no run starts.
C10_ConfigErrorsFatal ==
    [][(/\ lastOp'.op \in {"construct", "append", "insert"}
        /\ \E i \in DOMAIN lastOp'.items :
              LET item == lastOp'.items[i]
              IN \/ item.kind \notin {"stage", "dict"}
                 \/ item.kind = "dict" /\ item.name = None
                 \/ item.kind = "dict" /\ item.name \notin DOMAIN reg)
       => /\ lastOp'.result = "ValueError"
          /\ pipe' = pipe
          /\ run' = RunIdle]_vars

\* a construction refused for a name that is not registered, after a valid
\* first item
C10_Witness ==
    /\ lastOp.op = "construct"
    /\ lastOp.result = "ValueError"
    /\ ~pipe.made
    /\ Len(lastOp.items) = 2
    /\ lastOp.items[1].kind = "stage"
    /\ lastOp.items[2] = [kind |-> "dict", name |-> UnknownName]

(***************************************************************************)
(* Pipeline.run (pcore.py 389-468).  A stage's hooks are code outside the  *)
(* core: each call's outcome is chosen from what the hook's contract in    *)
(* _Preprocess allows (process and plot leave the axes alone, calc_and_save *)
(* may add one product field and may rewrite an earlier one, select may    *)
(* remove any entities of the raw container), or the hook raises.          *)
(***************************************************************************)
\* the sentinel Pipeline.run starts success with
EndSentinel == "end"

\* names of the stages of a pipeline, by position; a stage class may appear
\* twice in a pipeline, and nothing keeps a class from being named 'end'
NameLists == {<<"noise", "cuts", "noise">>, <<"noise", "end", "cuts">>}

NameAt(names, k) == names[((k - 1) % Len(names)) + 1]

\* the hooks of a stage, and the configuration key each one is gated by
Hooks == {"process", "calc_and_save", "save", "select", "plot"}

HookKey(hook) == IF hook = "calc_and_save" THEN "calc" ELSE hook

HookKeys == {HookKey(h) : h \in Hooks}

\* _Preprocess.__init__(step_cfgs) of a class that overrides the hooks impl:
\* keys are the keys of step_cfgs, skip the value under 'skip_on_sim' (read
\* only when that key is there); step_cfgs is kept for reference
StageInit(name, keys, skip, impl) ==
    [name |-> name, cfg |-> keys \cap HookKeys,
     skip_on_sim |-> IF "skip_on_sim" \in keys THEN skip ELSE FALSE,
     impl |-> impl, step_cfgs |-> [keys |-> keys, skip |-> skip]]

\* a stage instance whose class overrides every hook and whose configuration
\* has every key
StageOf(name, skip) == StageInit(name, HookKeys \cup {"skip_on_sim"}, skip, Hooks)

\* what the configuration and the class of a stage can look like: keys of the
\* configuration, value under 'skip_on_sim', hooks the class overrides
StageVariants ==
    {[keys |-> {}, skip |-> TRUE, impl |-> {}],
     [keys |-> HookKeys, skip |-> TRUE, impl |-> Hooks],
     [keys |-> HookKeys \cup {"skip_on_sim"}, skip |-> TRUE, impl |-> Hooks],
     [keys |-> HookKeys \ {"save"}, skip |-> FALSE, impl |-> Hooks \ {"save"}]}
    \cup {[keys |-> HookKeys, skip |-> FALSE, impl |-> Hooks \ {h}] : h \in Hooks}

\* a pipeline of n stages; with skip2 the second stage is flagged skip_on_sim
PipelineOf(names, n, skip2) ==
    [k \in 1..n |-> StageOf(NameAt(names, k), skip2 /\ k = 2)]

\* a pipeline of n stages whose stage p is of the variant v
PipelineWith(names, n, p, v) ==
    [k \in 1..n |->
        IF k = p THEN StageInit(NameAt(names, k), v.keys, v.skip, v.impl)
        ELSE StageOf(NameAt(names, k), FALSE)]

\* the raw container: only its axes matter to run
RawOver(dets) == AxisManager([dets |-> LabelAxis(dets), samps |-> FullAxes.samps], <<>>)

\* the value a stage computes for an entity (1.0, 2.0, 3.0 for d0, d1, d2)
DetValue(det) == PosOf(AllDets \o <<OtherDet>>, det)

\* the sub-container a stage's calc_and_save/save wraps into the product: one
\* dense per-entity field over the product's current axes; a rewritten field
\* holds other numbers
StageProduct(axes, rewritten) ==
    AxisManager(axes,
        <<Field("val", Dense(<<"dets">>, <<AxisCount(axes.dets)>>,
              [t \in Tuples(<<AxisCount(axes.dets)>>) |->
                  DetValue(axes.dets.vals[t[1] + 1]) + (IF rewritten THEN 10 ELSE 0)]))>>)

\* the product field stage k saves
FieldOf(k) == "f" \o ToString(k)

\* a product of an earlier run, over the given entities
PriorProduct(dets) ==
    LET axes == [dets |-> LabelAxis(dets), samps |-> FullAxes.samps]
    IN AxisManager(axes, <<Field("f0", StageProduct(axes, FALSE))>>)

NoProduct == [kind |-> "none"]

\* the entity lists a product of an earlier run can have: raw's own, a subset,
\* the same labels in another order, and lists with a label raw does not have
PriorDets ==
    {AllDets, <<"d0", "d2">>, <<"d2", "d1", "d0">>, <<"d2", "d0">>,
     <<"d1", OtherDet>>, <<OtherDet>>}

\* the arguments of one call of run, and the pipeline it is called on
RunInputs ==
    \* compute mode: no product is passed
    {[stages |-> PipelineOf(names, n, sim), wrap_valid |-> TRUE, product |-> NoProduct,
      select |-> sel, sim |-> sim, update_plot |-> FALSE] :
        names \in NameLists, n \in 1..MaxStages, sel \in BOOLEAN, sim \in BOOLEAN}
    \* compute mode, other keyword values
    \cup {[stages |-> PipelineOf(names, n, FALSE), wrap_valid |-> wv, product |-> NoProduct,
           select |-> TRUE, sim |-> FALSE, update_plot |-> up] :
             names \in NameLists, n \in {MaxStages}, wv \in BOOLEAN, up \in BOOLEAN}
    \* compute mode on simulation, update_plot passed true
    \cup {[stages |-> PipelineOf(names, n, TRUE), wrap_valid |-> TRUE, product |-> NoProduct,
           select |-> TRUE, sim |-> TRUE, update_plot |-> TRUE] :
             names \in NameLists, n \in {MaxStages}}
    \* compute mode, one stage with another configuration or class
    \cup {[stages |-> PipelineWith(names, n, p, v), wrap_valid |-> TRUE,
           product |-> NoProduct, select |-> TRUE, sim |-> sim, update_plot |-> FALSE] :
             names \in {<<"noise", "cuts", "noise">>}, n \in {MaxStages}, p \in 1..2,
             v \in StageVariants, sim \in BOOLEAN}
    \* resumed mode: the product of an earlier run is passed
    \cup {[stages |-> PipelineOf(names, n, sim), wrap_valid |-> TRUE,
           product |-> PriorProduct(dets),
           select |-> sel, sim |-> sim, update_plot |-> up] :
             names \in NameLists, n \in {MaxStages}, sel \in BOOLEAN, sim \in BOOLEAN,
             up \in BOOLEAN, dets \in {AllDets, <<"d0", "d2">>}}
    \* resumed mode, the product's entities differing from raw's
    \cup {[stages |-> PipelineOf(names, n, FALSE), wrap_valid |-> TRUE,
           product |-> PriorProduct(dets),
           select |-> sel, sim |-> FALSE, update_plot |-> FALSE] :
             names \in {<<"noise", "cuts", "noise">>}, n \in {2}, sel \in BOOLEAN,
             dets \in PriorDets}

RunStartState(inp) ==
    [pc |-> "start", stages |-> inp.stages, wrap_valid |-> inp.wrap_valid,
     select |-> inp.select, sim |-> inp.sim, update_plot_arg |-> inp.update_plot,
     aman |-> RawOver(AllDets), aman0 |-> RawOver(AllDets).axes,
     proc_aman |-> inp.product, proc0 |-> inp.product, full |-> NoOut,
     run_calc |-> FALSE, update_plot |-> inp.update_plot,
     success |-> "unset", step |-> 0, brk |-> FALSE, last |-> 0,
     hooks |-> <<>>, res |-> <<>>, trace |-> <<>>,
     warned |-> FALSE, det_list |-> <<>>, exc |-> "none", plots |-> <<>>]

\* the setup with det_list built from raw's labels, in raw's order
RunSetupRawOrder(r) ==
    IF r.proc_aman = NoProduct
    THEN [r EXCEPT !.proc_aman = AxisManager(r.aman.axes, <<>>),
                   !.full = AxisManager(r.aman.axes, <<>>),
                   !.run_calc = TRUE, !.update_plot = FALSE,
                   !.success = EndSentinel, !.step = 1, !.pc = "loop"]
    ELSE LET differ == \/ AxisCount(r.aman.axes.dets) # AxisCount(r.proc_aman.axes.dets)
                       \/ r.aman.axes.dets.vals # r.proc_aman.axes.dets.vals
             det_list == Filter(r.aman.axes.dets.vals, Range(r.proc_aman.axes.dets.vals))
             a1 == IF differ THEN RestrictDets(r.aman, det_list) ELSE r.aman
             p1 == IF differ THEN RestrictDets(r.proc_aman, det_list) ELSE r.proc_aman
         IN [r EXCEPT !.aman = a1, !.proc_aman = p1, !.full = p1, !.warned = differ,
                      !.det_list = IF differ THEN det_list ELSE <<>>,
                      !.run_calc = FALSE,
                      !.success = EndSentinel, !.step = 1, !.pc = "loop"]

\* lines 433-447: the containers and flags run sets up before the loop
RunSetup(r) ==
    IF r.proc_aman = NoProduct
    THEN [r EXCEPT !.proc_aman = AxisManager(r.aman.axes, <<>>),
                   !.full = AxisManager(r.aman.axes, <<>>),
                   !.run_calc = TRUE, !.update_plot = FALSE,
                   !.success = EndSentinel, !.step = 1, !.pc = "loop"]
    ELSE LET differ == \/ AxisCount(r.aman.axes.dets) # AxisCount(r.proc_aman.axes.dets)
                       \/ r.aman.axes.dets.vals # r.proc_aman.axes.dets.vals
             det_list == Filter(r.proc_aman.axes.dets.vals, Range(r.aman.axes.dets.vals))
             a1 == IF differ THEN RestrictDets(r.aman, det_list) ELSE r.aman
             p1 == IF differ THEN RestrictDets(r.proc_aman, det_list) ELSE r.proc_aman
         IN [r EXCEPT !.aman = a1, !.proc_aman = p1, !.full = p1, !.warned = differ,
                      !.det_list = IF differ THEN det_list ELSE <<>>,
                      !.run_calc = FALSE,
                      !.success = EndSentinel, !.step = 1, !.pc = "loop"]

\* a base hook that returns whether or not its key is configured
BaseHookNeverRaises(st, hook) == IF hook = "select" THEN "return meta" ELSE "return"

\* a hook as _Preprocess defines it: it returns when its key is not in the
\* configuration (select returns meta), and raises when the key is there
BaseHook(st, hook) ==
    IF HookKey(hook) \notin st.cfg
    THEN (IF hook = "select" THEN "return meta" ELSE "return")
    ELSE "NotImplementedError"

\* how a call of a stage's hook ends: the base class's hook where the class
\* does not override it, and otherwise what the outcome oc says
HookResult(st, hook, oc) ==
    IF hook \notin st.impl THEN BaseHook(st, hook)
    ELSE IF oc.raiseAt = hook THEN "HookError" ELSE "done"

Raises(res) == res \in {"NotImplementedError", "HookError"}

\* a hook call that loses the exception
CallHookSwallow(r, k, hook, res) ==
    IF r.pc # "loop" THEN r
    ELSE [r EXCEPT !.hooks = Append(@, <<k, hook>>),
                   !.res = Append(@, res),
                   !.trace = Append(@, <<k, hook>>)]

\* a hook of stage k is called and ends as res says: logged, and the run ends
\* if it raises
CallHook(r, k, hook, res) ==
    IF r.pc # "loop" THEN r
    ELSE [r EXCEPT !.hooks = Append(@, <<k, hook>>),
                   !.res = Append(@, res),
                   !.trace = Append(@, <<k, hook>>),
                   !.pc = IF Raises(res) THEN "raised" ELSE @,
                   !.exc = IF Raises(res) THEN res ELSE @]

\* the last hook called was the class's own and has returned
Acted(c) == c.pc = "loop" /\ c.res[Len(c.res)] = "done"

\* a step of run that is not a hook call, noted in the trace
Mark(r, k, what) ==
    IF r.pc # "loop" THEN r ELSE [r EXCEPT !.trace = Append(@, <<k, what>>)]

\* the name of the array stage k wraps at the top level of the product
ArrayOf(k) == "a" \o ToString(k)

\* what calc_and_save (through save) does to the product: nothing, a new
\* field for this stage, that and a rewrite of the product's first field, or
\* the new field followed by an array wrapped at the product's top level
CalcEffect(proc_aman, k, calc) ==
    LET added == Append(proc_aman.fields,
                        Field(FieldOf(k), StageProduct(proc_aman.axes, FALSE)))
    IN IF calc = "none" THEN proc_aman
       ELSE IF calc = "add_array"
       THEN [proc_aman EXCEPT !.fields =
                Append(added, Field(ArrayOf(k),
                                    GetField(StageProduct(proc_aman.axes, FALSE), "val")))]
       ELSE IF calc = "add" \/ proc_aman.fields = <<>>
       THEN [proc_aman EXCEPT !.fields = added]
       ELSE [proc_aman EXCEPT !.fields =
                [added EXCEPT ![1] = Field(added[1].name,
                                           StageProduct(proc_aman.axes, TRUE))]]

\* select with the hook's list taken as the new entity axis
SelectStepAssign(aman, keep) == RawOver(keep)

\* what a stage's select does to the raw container: it restricts the entity
\* axis, in place, to the labels it wants to keep
SelectStep(aman, keep) == RestrictDets(aman, keep)

\* lines 464-466 without the break
CheckEmptyNoBreak(r, k) ==
    IF r.pc # "loop" THEN r
    ELSE IF AxisCount(r.aman.axes.dets) = 0
    THEN [r EXCEPT !.success = r.stages[k].name, !.last = k, !.step = k + 1,
                   !.trace = Append(@, <<k, "check">>)]
    ELSE [r EXCEPT !.last = k, !.step = k + 1, !.trace = Append(@, <<k, "check">>)]

\* lines 464-466: the empty-axis check that ends the loop
CheckEmpty(r, k) ==
    IF r.pc # "loop" THEN r
    ELSE IF AxisCount(r.aman.axes.dets) = 0
    THEN [r EXCEPT !.success = r.stages[k].name, !.brk = TRUE, !.last = k,
                   !.step = k + 1, !.trace = Append(@, <<k, "check">>)]
    ELSE [r EXCEPT !.last = k, !.step = k + 1, !.trace = Append(@, <<k, "check">>)]

\* line 452: process.process(aman, proc_aman)
StepProcess(r, k, oc) == CallHook(r, k, "process", HookResult(r.stages[k], "process", oc))

\* the class's save, called by its calc_and_save, has been called (state c)
AfterSave(c, k, oc) ==
    IF Acted(c) THEN [c EXCEPT !.proc_aman = CalcEffect(@, k, oc.calc)] ELSE c

\* line 454, once calc_and_save has been called (state c): the class's
\* calc_and_save hands what it computed to self.save
AfterCalc(c, k, oc) ==
    IF Acted(c) /\ oc.calc # "none"
    THEN AfterSave(CallHook(c, k, "save", HookResult(c.stages[k], "save", oc)), k, oc)
    ELSE c

\* lines 453-454: if run_calc: process.calc_and_save(aman, proc_aman)
StepCalc(r, k, oc) ==
    IF r.pc = "loop" /\ r.run_calc
    THEN AfterCalc(CallHook(r, k, "calc_and_save",
                            HookResult(r.stages[k], "calc_and_save", oc)), k, oc)
    ELSE r

\* enumerate's step counted over the stages that were not skipped
PlotStepExecuted(r, k) == Cardinality({r.hooks[i][1] : i \in DOMAIN r.hooks} \ {k})

\* enumerate's step for the stage at (1-based) position k of the list
PlotStep(r, k) == k - 1

\* os.path.join(self.plot_dir, '{ctime}/{obsid}', f'{step+1}_{{name}}.png')
PlotFilename(step) == <<"plot_dir", "{ctime}", "{obsid}", ToString(step + 1) \o "_{name}.png">>

\* the filename argument of a plot call is noted
LogPlot(r, k) ==
    IF r.pc # "loop" THEN r
    ELSE [r EXCEPT !.plots = Append(@, [stage |-> k,
                                        filename |-> PlotFilename(PlotStep(r, k))])]

\* line 455: process.plot(...) under run_calc
StepPlot(r, k, oc) ==
    IF r.pc = "loop" /\ r.run_calc
    THEN CallHook(LogPlot(r, k), k, "plot", HookResult(r.stages[k], "plot", oc))
    ELSE r

\* line 456, with u the result of update_full_aman
ApplyUpdate(r, u) ==
    [r EXCEPT !.full = u.full,
              !.pc = IF IsErr(u.err) THEN "raised" ELSE @,
              !.exc = IF IsErr(u.err) THEN u.err.exc ELSE @]

\* line 456: update_full_aman(proc_aman, full, self.wrap_valid) under run_calc
StepUpdate(r, k) ==
    IF r.pc = "loop" /\ r.run_calc
    THEN ApplyUpdate(Mark(r, k, "update_full_aman"),
                     UpdateFullAman(r.proc_aman, r.full, r.wrap_valid))
    ELSE r

\* lines 457-458: if update_plot: process.plot(...)
StepUpdatePlot(r, k, oc) ==
    IF r.pc = "loop" /\ r.update_plot
    THEN CallHook(LogPlot(r, k), k, "plot", HookResult(r.stages[k], "plot", oc))
    ELSE r

\* line 461 applied to full as well, as if full were proc_aman itself
ApplySelectAliased(c, k, a) ==
    [c EXCEPT !.aman = a,
              !.proc_aman = RestrictDets(@, a.axes.dets.vals),
              !.full = RestrictDets(@, a.axes.dets.vals),
              !.trace = Append(@, <<k, "restrict">>)]

\* line 460 without line 461
ApplySelectNoRestrict(c, k, a) ==
    [c EXCEPT !.aman = a, !.trace = Append(@, <<k, "restrict">>)]

\* lines 460-461, with a the raw container select left behind
ApplySelect(c, k, a) ==
    [c EXCEPT !.aman = a,
              !.proc_aman = RestrictDets(@, a.axes.dets.vals),
              !.trace = Append(@, <<k, "restrict">>)]

\* lines 460-461, once select has been called (state c)
AfterSelect(c, k, oc) ==
    IF c.pc = "loop"
    THEN ApplySelect(c, k, IF Acted(c) THEN SelectStep(c.aman, oc.keep) ELSE c.aman)
    ELSE c

\* lines 459-461: if select: process.select(...); proc_aman.restrict('dets', ...)
StepSelect(r, k, oc) ==
    IF r.pc = "loop" /\ r.select
    THEN AfterSelect(CallHook(r, k, "select", HookResult(r.stages[k], "select", oc)), k, oc)
    ELSE r

\* the loop body with select and the restriction ahead of the reconciliation
StageBodySelectFirst(r, k, oc) ==
    CheckEmpty(
        StepUpdatePlot(
            StepUpdate(
                StepSelect(
                    StepPlot(StepCalc(StepProcess(r, k, oc), k, oc), k, oc),
                    k, oc),
                k),
            k, oc),
        k)

\* lines 449-466: one iteration of the loop, for stage k, with the hooks'
\* outcomes oc
StageBody(r, k, oc) ==
    CheckEmpty(
        StepSelect(
            StepUpdatePlot(
                StepUpdate(
                    StepPlot(StepCalc(StepProcess(r, k, oc), k, oc), k, oc),
                    k),
                k, oc),
            k, oc),
        k)

\* the outcomes the hooks of one iteration can have
Outcomes(r) ==
    {[raiseAt |-> "none", calc |-> c, keep |-> keep] :
        c \in (IF r.run_calc THEN {"none", "add", "add_rewrite", "add_array"} ELSE {"none"}),
        keep \in (IF r.select THEN SubSeqs(AllDets) ELSE {AllDets})}
    \cup {[raiseAt |-> h, calc |-> "add", keep |-> AllDets] :
             h \in {"process"}
                   \cup (IF r.run_calc THEN {"calc_and_save"} ELSE {})
                   \cup (IF r.run_calc \/ r.update_plot THEN {"plot"} ELSE {})
                   \cup (IF r.select THEN {"select"} ELSE {})}

\* run is entered: everything before the loop
RunStart ==
    /\ run.pc = "start"
    /\ run' = RunSetup(run)
    /\ UNCHANGED <<ex, reg, pipe, lastOp, met, drv, stg>>

\* line 449 without the test of sim
SkipStageAnyRun(r, k) == r.stages[k].skip_on_sim

\* line 449: if sim and process.skip_on_sim
SkipStage(r, k) == r.sim /\ r.stages[k].skip_on_sim

\* one iteration of 'for step, process in enumerate(self)'
RunStage ==
    /\ run.pc = "loop" /\ ~run.brk /\ run.step <= Len(run.stages)
    /\ IF SkipStage(run, run.step)
       THEN run' = [run EXCEPT !.step = @ + 1]
       ELSE \E oc \in Outcomes(run) : run' = StageBody(run, run.step, oc)
    /\ UNCHANGED <<ex, reg, pipe, lastOp, met, drv, stg>>

\* return full, success
RunReturn ==
    /\ run.pc = "loop" /\ (run.brk \/ run.step > Len(run.stages))
    /\ run' = [run EXCEPT !.pc = "returned"]
    /\ UNCHANGED <<ex, reg, pipe, lastOp, met, drv, stg>>

Next == RunStart \/ RunStage \/ RunReturn

\* the pipeline run is one the registry and _check_item let through: its
\* stages are instances of registered classes
Init ==
    /\ ex = ExIdle /\ reg = <<>> /\ pipe = NoPipe /\ lastOp = NoOp
    /\ \E inp \in RunInputs : run = RunStartState(inp)
    /\ met = MetIdle /\ drv = DrvIdle /\ stg = StgIdle

Spec == Init /\ [][Next]_vars

(***************************************************************************)
(* Properties of Pipeline.run, checked under Spec.                         *)
(***************************************************************************)
\* the entity labels of a container
DetsOf(c) == Range(c.axes.dets.vals)

\* the numbers of the per-entity field of a stage's sub-container
ValuesOf(sub) == Range(GetField(sub, "val").data)

\* C1: in a compute-mode run, a field that exists in full keeps its value
\* through every later step of the run, whatever the stages do to the field
\* of the same name in the product.
C1_WriteOnce ==
    [][(run.pc = "loop" /\ run.run_calc)
       => \A i \in DOMAIN run.full.fields :
             /\ run.full.fields[i].name \in FieldNames(run'.full)
             /\ GetField(run'.full, run.full.fields[i].name) = run.full.fields[i].val]_vars

\* a later stage has rewritten the product's f1 and full still holds the
\* numbers f1 was reconciled with
C1_Witness ==
    /\ run.pc = "returned" /\ run.run_calc /\ run.last >= 2
    /\ "f1" \in FieldNames(run.proc_aman) /\ "f1" \in FieldNames(run.full)
    /\ "f2" \in FieldNames(run.full)
    /\ ValuesOf(GetField(run.proc_aman, "f1")) # {}
    /\ \A x \in ValuesOf(GetField(run.proc_aman, "f1")) : x > 10
    /\ \A x \in ValuesOf(GetField(run.full, "f1")) : x <= Len(AllDets)

C3_EarlyTermination ==
    (/\ run.pc \in {"loop", "returned", "raised"}
     /\ run.last >= 1
     /\ AxisCount(run.aman.axes.dets) = 0)
    => /\ run.brk
       /\ run.pc # "raised" /\ run.exc = "none"
       /\ run.success = run.stages[run.last].name
       /\ \A i \in DOMAIN run.hooks : run.hooks[i][1] <= run.last
       /\ run.run_calc => FieldNames(run.full) \subseteq {FieldOf(j) : j \in 1..run.last}

\* a three-stage compute run whose second stage removed every entity has
\* returned with the fields of stages 1 and 2
C3_Witness ==
    /\ run.pc = "returned" /\ run.run_calc /\ Len(run.stages) = 3
    /\ run.last = 2 /\ run.brk
    /\ AxisCount(run.aman.axes.dets) = 0
    /\ run.success = run.stages[2].name
    /\ FieldNames(run.full) = {FieldOf(1), FieldOf(2)}
    /\ <<2, "select">> \in Range(run.hooks)

\* C4 as stated: run returns 'end' exactly when no executed stage left the raw
\* container empty, and otherwise the name of the stage that did.
C4_Original ==
    run.pc = "returned"
    => /\ run.success = EndSentinel <=> ~run.brk
       /\ run.brk => run.success = run.stages[run.last].name

\* C7: in a compute-mode run, full has the axes the raw container had when run
\* was called, and every field of full is a container over those axes with one
\* entry per original entity, whatever select has removed since.
C7_FullSpansOriginal ==
    (run.pc \in {"loop", "returned", "raised"} /\ run.run_calc)
    => /\ run.full.axes = run.aman0
       /\ \A i \in DOMAIN run.full.fields :
             /\ run.full.fields[i].val.kind = "AxisManager"
             /\ run.full.fields[i].val.axes = run.aman0
             /\ GetField(run.full.fields[i].val, "val").shape
                   = <<AxisCount(run.aman0.dets)>>

\* d1 was cut after stage 1: f1 and f2 have three entries in full, raw and
\* product have d0 and d2
C7_Witness ==
    /\ run.pc = "returned" /\ run.run_calc /\ run.last >= 2
    /\ run.aman.axes.dets.vals = <<"d0", "d2">>
    /\ run.proc_aman.axes.dets.vals = <<"d0", "d2">>
    /\ {"f1", "f2"} \subseteq FieldNames(run.full)
    /\ GetField(GetField(run.full, "f1"), "val").shape = <<3>>
    /\ GetField(GetField(run.full, "f2"), "val").shape = <<3>>
    /\ GetField(GetField(run.proc_aman, "f2"), "val").shape = <<2>>

\* C11 as stated: when a hook that is configured but not implemented fails
\* in stage k, no hook of the stages before k has been invoked.
C11_Original ==
    (run.pc = "raised" /\ run.exc = "NotImplementedError")
    => \A i \in DOMAIN run.hooks : run.hooks[i][1] >= run.hooks[Len(run.hooks)][1]

StageTrace(k) ==
    LET mine == SelectSeq(run.trace, LAMBDA e : e[1] = k /\ e[2] # "save")
    IN [i \in DOMAIN mine |-> mine[i][2]]

\* the steps of an executed stage of a compute-mode run, in the order of
\* lines 452-466
ComputeOrder(select) ==
    <<"process", "calc_and_save", "plot", "update_full_aman">>
    \o (IF select THEN <<"select", "restrict">> ELSE <<>>)
    \o <<"check">>

\* C13: the steps of a run are those of its stages in list order, one stage
\* after the other, and in compute mode the steps of an executed stage are, in
\* this order, process, calc_and_save, plot, the reconciliation into full,
\* select, the restriction of the product, and the empty-axis check (a stage
\* that raised having stopped somewhere along that order).
C13_HookOrder ==
    (run.pc \in {"loop", "returned", "raised"})
    => /\ \A i, j \in DOMAIN run.trace : i < j => run.trace[i][1] <= run.trace[j][1]
       /\ run.run_calc
          => \A k \in DOMAIN run.stages :
                LET t == StageTrace(k)
                    order == ComputeOrder(run.select)
                IN /\ Len(t) <= Len(order)
                   /\ t = SubSeq(order, 1, Len(t))
                   /\ (k <= run.last /\ t # <<>>) => t = order

\* three stages of a compute-mode run with select have each gone through
\* their seven steps
C13_Witness ==
    /\ run.pc = "returned" /\ run.run_calc /\ run.select /\ run.last = 3
    /\ \A k \in 1..3 : StageTrace(k) = ComputeOrder(TRUE)
    /\ <<2, "save">> \in Range(run.trace)

\* C14: in a run that is given a product, no stage's calc_and_save (or save)
\* is called and update_full_aman is never reached, and full is, in every
\* state of the run, the product as it was passed in, restricted to the common
\* entities when run warned: selection shrinks raw and product, never full.
C14_ResumedMode ==
    (run.pc \in {"loop", "returned", "raised"} /\ run.proc0 # NoProduct)
    => /\ ~run.run_calc
       /\ \A i \in DOMAIN run.trace :
             run.trace[i][2] \notin {"calc_and_save", "save", "update_full_aman"}
       /\ run.full = (IF run.warned THEN RestrictDets(run.proc0, run.det_list)
                      ELSE run.proc0)

\* a resumed run has returned after a stage's select cut product down to one
\* entity, full still having the two the product came in with
C14_Witness ==
    /\ run.pc = "returned" /\ run.proc0 # NoProduct /\ run.last >= 1
    /\ <<1, "select">> \in Range(run.trace)
    /\ AxisCount(run.proc_aman.axes.dets) = 1
    /\ AxisCount(run.full.axes.dets) = 2
    /\ GetField(GetField(run.full, "f0"), "val").shape = <<2>>
    /\ GetField(GetField(run.proc_aman, "f0"), "val").shape = <<1>>

\* C15: in a run with sim=True a stage whose skip_on_sim is true is passed
\* over: none of its hooks is called and raw, product, full and the cause stay
\* as they are; in every other case the stage is executed, starting with its
\* process hook.  skip_on_sim is false for a stage configured without the key.
C15_SimSkip ==
    [][(run.pc = "loop" /\ ~run.brk /\ run.step <= Len(run.stages))
       => LET st == run.stages[run.step]
          IN /\ "skip_on_sim" \notin st.step_cfgs.keys => ~st.skip_on_sim
             /\ "skip_on_sim" \in st.step_cfgs.keys => st.skip_on_sim = st.step_cfgs.skip
             /\ (run.sim /\ st.skip_on_sim)
                => /\ run'.hooks = run.hooks /\ run'.trace = run.trace
                   /\ run'.aman = run.aman /\ run'.proc_aman = run.proc_aman
                   /\ run'.full = run.full /\ run'.success = run.success
                   /\ run'.pc = "loop" /\ run'.step = run.step + 1
             /\ ~(run.sim /\ st.skip_on_sim)
                => /\ Len(run'.hooks) > Len(run.hooks)
                   /\ run'.hooks[Len(run.hooks) + 1] = <<run.step, "process">>]_vars

\* a simulation run has returned after stages 1 and 3, the flagged stage 2
\* having left no trace
C15_Witness ==
    /\ run.pc = "returned" /\ run.sim /\ Len(run.stages) = 3
    /\ run.stages[2].skip_on_sim /\ ~run.stages[1].skip_on_sim
    /\ run.last = 3
    /\ \A i \in DOMAIN run.trace : run.trace[i][1] # 2
    /\ <<1, "process">> \in Range(run.trace) /\ <<3, "process">> \in Range(run.trace)

\* C16: in a run with select=True, once a stage has been executed the product
\* has exactly the entities raw has after that stage's select; in a run with
\* select=False no select hook is called and the product is never restricted
\* in the loop (it keeps the entities full has).
C16_ProductFollowsSelection ==
    (run.pc \in {"loop", "returned"} /\ run.last >= 1)
    => /\ run.select => DetsOf(run.proc_aman) = DetsOf(run.aman)
       /\ ~run.select
          => /\ \A i \in DOMAIN run.trace : run.trace[i][2] \notin {"select", "restrict"}
             /\ run.proc_aman.axes.dets = run.full.axes.dets

\* stage 1's select has cut d1 from raw, and the product, which holds stage
\* 1's field, has been cut to the same two entities
C16_Witness ==
    /\ run.pc = "loop" /\ run.select /\ run.last = 1 /\ run.run_calc
    /\ Len(run.trace) >= 2
    /\ run.trace[Len(run.trace) - 1] = <<1, "restrict">>
    /\ run.aman.axes.dets.vals = <<"d0", "d2">>
    /\ run.proc_aman.axes.dets.vals = <<"d0", "d2">>
    /\ FieldOf(1) \in FieldNames(run.proc_aman)
    /\ GetField(GetField(run.proc_aman, FieldOf(1)), "val").shape = <<2>>

\* C17: when the product passed to run has another entity axis than raw
\* (count, labels or order), run goes on: it warns and, before any hook is
\* called, restricts raw and product to the entities they share, the list of
\* those being in the product's order; when the axes are the same there is no
\* warning and both containers enter the loop as they came.
C17_EntityMismatch ==
    (run.pc # "start" /\ run.proc0 # NoProduct)
    => LET rawDets == run.aman0.dets.vals
           prodDets == run.proc0.axes.dets.vals
           shared == Range(rawDets) \cap Range(prodDets)
       IN /\ run.warned <=> rawDets # prodDets
          /\ run.hooks = <<>> => run.pc = "loop"
          /\ run.warned
             => /\ Range(run.det_list) = shared
                /\ Len(run.det_list) = Cardinality(shared)
                /\ \A i, j \in DOMAIN run.det_list :
                      i < j => PosOf(prodDets, run.det_list[i]) < PosOf(prodDets, run.det_list[j])
                /\ run.hooks = <<>>
                   => DetsOf(run.aman) = shared /\ DetsOf(run.proc_aman) = shared
                /\ DetsOf(run.full) = shared
          /\ (~run.warned /\ run.hooks = <<>>)
             => /\ run.aman.axes = run.aman0
                /\ run.proc_aman = run.proc0

\* run has warned and cut raw to the entities of the product (d2, d0), the
\* list of those being in the product's order, and no hook has been called
C17_Witness ==
    /\ run.pc = "loop" /\ run.hooks = <<>> /\ run.warned
    /\ run.proc0 # NoProduct
    /\ run.proc0.axes.dets.vals = <<"d2", "d0">>
    /\ run.det_list = <<"d2", "d0">>
    /\ DetsOf(run.aman) = {"d0", "d2"}
    /\ AxisCount(run.aman.axes.dets) = 2

\* C18: a hook that raises ends the run there: it is the last hook called and
\* the last step taken, of its stage and of the run, and the run is left by
\* that exception, with no (full, cause) returned.
C18_ExceptionPropagation ==
    \A i \in DOMAIN run.res :
        Raises(run.res[i])
        => /\ i = Len(run.res)
           /\ run.trace[Len(run.trace)] = run.hooks[i]
           /\ run.pc = "raised"
           /\ run.exc = run.res[i]
           /\ run.last < run.hooks[i][1]

\* the second of three stages raised in calc_and_save after its process hook
\* and all of stage 1 had run
C18_Witness ==
    /\ run.pc = "raised" /\ run.exc = "HookError" /\ Len(run.stages) = 3
    /\ run.hooks # <<>>
    /\ run.hooks[Len(run.hooks)] = <<2, "calc_and_save">>
    /\ <<1, "select">> \in Range(run.hooks)
    /\ run.last = 1

(***************************************************************************)
(* Properties of _expand on inputs that are not cut out of the full frame  *)
(* (under SpecExpand).                                                     *)
(***************************************************************************)
\* C19 as stated: when sub's entity axis or sample axis shares no index with
\* full's, _expand completes, every field of the output is the zero value of
\* its kind over full's shape, and 'valid' is false everywhere.
C19_Original ==
    (ex.pc = "expanded" /\ ex.variant = "disjoint")
    => /\ ~IsErr(ex.out)
       /\ \A i \in DOMAIN ex.sub.fields :
             LET v == ex.sub.fields[i].val
             IN ex.out.fields[i] =
                   Field(ex.sub.fields[i].name, ZerosCls(v, v.asg, ShapeOf(FullAxes, v.asg)))
       /\ ex.wrap_valid
          => \A r \in DOMAIN GetField(ex.out, "valid").ranges :
                GetField(ex.out, "valid").ranges[r].ivals = <<>>

\* the field of a sub-container that breaks _expand's assumptions (looked for
\* one level down when the sub-container nests another)
BadFieldOf(sub) ==
    LET last == sub.fields[Len(sub.fields)].val
    IN IF last.kind = "AxisManager" THEN last.fields[Len(last.fields)].val ELSE last

\* C20: _expand raises for a RangesMatrix field whose last axis is not the
\* sample axis, for a Ranges field whose first axis is not the sample axis,
\* for a csr_array field not assigned (dets, samps) (AssertionError each) and
\* for a non-scalar value of a kind without zero factory (ValueError), also
\* when the field follows well-formed ones or sits in a nested container; and
\* update_full_aman then raises as well and wraps nothing into full.
C20_ContractViolations ==
    (ex.pc = "expanded" /\ ex.variant = "bad_field")
    => /\ IsErr(ex.out)
       /\ ex.out.exc = (IF BadFieldOf(ex.sub).kind = "list" THEN "ValueError"
                        ELSE "AssertionError")
       /\ IsErr(ex.upd.err)
       /\ ex.upd.err = ex.out
       /\ ex.upd.full.fields = <<>>

\* _expand has raised on a list that follows a well-formed dense field
C20_Witness ==
    /\ ex.pc = "expanded" /\ ex.variant = "bad_field"
    /\ Len(ex.sub.fields) = 2
    /\ ex.sub.fields[1].val.kind = "ndarray"
    /\ ex.sub.fields[2].val.kind = "list"
    /\ IsErr(ex.out) /\ ex.out.exc = "ValueError"
    /\ ex.upd.full.fields = <<>>

(***************************************************************************)
(* _FracFlaggedMixIn.gen_metric: the quality metric of a stage that saves  *)
(* a flag RangesMatrix. A string is a sequence of characters; det_info is  *)
(* given by one bandpass and one wafer_slot per detector.                  *)
(***************************************************************************)
\* number of detectors of the metadata container given to gen_metric
MaxMetDets == 2
\* length of the flags_key string
MaxKeyLen == 3

\* the values of det_info.wafer.bandpass and det_info.wafer_slot, in sorted order
Bandpasses == <<"f090", "f150">>

WaferSlots == <<"ws0", "ws1">>

\* cls.name of the stage, and the name of the flag dataset it saves
MetricStageName == <<"g">>

MetricFlagsName == <<"f">>

\* the default of the percentiles argument
DefaultPercentiles == <<0, 50, 75, 90, 95, 100>>

PercentileLists == {<<>>, <<50>>, <<0, 50>>, DefaultPercentiles}

\* the keys det_info has (qa.metrics._has_tag)
DetInfoKeys == {"wafer_slot", "tel_tube", "wafer.bandpass"}

\* the default tag keys of gen_metric
DefaultTagKeys == <<"wafer_slot", "tel_tube", "wafer.bandpass">>

\* str.split("."), cur being the part read so far
RECURSIVE SplitDot(_, _)
SplitDot(s, cur) ==
    IF s = <<>> THEN <<cur>>
    ELSE IF Head(s) = "." THEN <<cur>> \o SplitDot(Tail(s), <<>>)
    ELSE SplitDot(Tail(s), Append(cur, Head(s)))

\* numpy.unique of a vector whose values come from the sorted list universe
Unique(vals, universe) == Filter(universe, Range(vals))

\* np.where(...)[0]: the 0-based positions where both tags match
Subset(m, bp, ws) ==
    SortedSeq({i \in 0..(Len(m.bandpass) - 1) :
                   At(m.wafer_slot, i) = ws /\ At(m.bandpass, i) = bp})

\* np.dot(r.ranges(), [-1, 1]).sum(): the number of samples in the intervals
NumSamples(r) == SeqSum([k \in DOMAIN r.ivals |-> r.ivals[k][2] - r.ivals[k][1]])

\* one detector's fraction of flagged samples, 0 where nothing is valid
FracFlagged(flags, valid) ==
    IF NumSamples(valid) > 0
    THEN [num |-> NumSamples(flags), den |-> NumSamples(valid)]
    ELSE [num |-> 0, den |-> 1]

\* qa.metrics._get_tag: the tag k of detector i
GetTag(m, k, i) ==
    IF k = "wafer_slot" THEN At(m.wafer_slot, i)
    ELSE IF k = "wafer.bandpass" THEN At(m.bandpass, i)
    ELSE "tube0"

\* tag_keys: the default keys, then the requested ones not among them
TagKeys(tags) ==
    DefaultTagKeys \o SelectSeq(tags, LAMBDA t : t \notin Range(DefaultTagKeys))

\* tags_base with det_stat set
TagsOf(m, first, det_stat) ==
    [k \in (Range(TagKeys(m.tags)) \cap DetInfoKeys) \cup {"telescope", "det_stat"} |->
        IF k = "telescope" THEN "tel0"
        ELSE IF k = "det_stat" THEN det_stat
        ELSE GetTag(m, k, first)]

\* the entries of one group with the mean entry left out
MetricGroupNoMean(m, subset, frac) ==
    [vals |-> [i \in 1..Len(m.percentiles) |->
                  [stat |-> "percentile", q |-> m.percentiles[i], of |-> frac]],
     tags |-> [i \in 1..Len(m.percentiles) |->
                  TagsOf(m, At(subset, 0), "percentile_" \o ToString(m.percentiles[i]))]]

\* the entries one (bp, ws) group adds to vals and tags: one per percentile
\* in the order given, then the mean
MetricGroup(m, subset, frac) ==
    [vals |-> [i \in 1..Len(m.percentiles) |->
                  [stat |-> "percentile", q |-> m.percentiles[i], of |-> frac]]
              \o <<[stat |-> "mean", of |-> frac]>>,
     tags |-> [i \in 1..Len(m.percentiles) |->
                  TagsOf(m, At(subset, 0), "percentile_" \o ToString(m.percentiles[i]))]
              \o <<TagsOf(m, At(subset, 0), "mean")>>]

\* the (bp, ws) pairs in the order the two nested loops visit them
Combos(m) ==
    LET bps == Unique(m.bandpass, Bandpasses)
        wss == Unique(m.wafer_slot, WaferSlots)
    IN [k \in 1..(Len(bps) * Len(wss)) |->
           <<bps[((k - 1) \div Len(wss)) + 1], wss[((k - 1) % Len(wss)) + 1]>>]

\* frac_flagged of the detectors of subset
FracOf(m, subset) ==
    [j \in 1..Len(subset) |-> FracFlagged(At(m.flags, subset[j]), At(m.valid, subset[j]))]

\* the two nested loops over bandpass and wafer slot, from the pair combos[1] on
RECURSIVE MetricLoop(_, _, _, _, _, _)
MetricLoop(m, key1, key2, combos, vals, tags) ==
    IF combos = <<>>
    THEN [kind |-> "dict", field |-> "flag_frac", values |-> vals,
          timestamps |-> [i \in 1..Len(vals) |-> m.timestamp], tags |-> tags]
    ELSE IF key1 # MetricStageName \/ key2 # MetricFlagsName
    THEN Err("KeyError")
    ELSE IF Subset(m, Head(combos)[1], Head(combos)[2]) = <<>>
    THEN Err("IndexError")
    ELSE MetricLoop(m, key1, key2, Tail(combos),
             vals \o MetricGroup(m, Subset(m, Head(combos)[1], Head(combos)[2]),
                         FracOf(m, Subset(m, Head(combos)[1], Head(combos)[2]))).vals,
             tags \o MetricGroup(m, Subset(m, Head(combos)[1], Head(combos)[2]),
                         FracOf(m, Subset(m, Head(combos)[1], Head(combos)[2]))).tags)

\* a str argument, and the None a missing argument defaults to
Str(s) == [kind |-> "str", s |-> s]

NoKey == [kind |-> "NoneType"]

\* _FracFlaggedMixIn.gen_metric(meta, proc_aman, flags_key, percentiles, tags)
GenMetric(m) ==
    IF m.flags_key = NoKey THEN Err("ValueError")
    ELSE IF Len(SplitDot(m.flags_key.s, <<>>)) = 1
    THEN MetricLoop(m, MetricStageName, SplitDot(m.flags_key.s, <<>>)[1], Combos(m), <<>>, <<>>)
    ELSE IF Len(SplitDot(m.flags_key.s, <<>>)) = 2
    THEN MetricLoop(m, SplitDot(m.flags_key.s, <<>>)[1], SplitDot(m.flags_key.s, <<>>)[2],
                    Combos(m), <<>>, <<>>)
    ELSE Err("ValueError")

\* the strings of at most n characters
RECURSIVE Strings(_)
Strings(n) ==
    IF n = 0 THEN {<<>>}
    ELSE Strings(n - 1) \cup
         {Append(s, ch) : s \in {t \in Strings(n - 1) : Len(t) = n - 1},
                          ch \in {"g", "f", "."}}

\* the flag rows of n detectors: detector i has its first i samples flagged
FlagRows(n) ==
    [i \in 1..n |-> RangesOf(MaxSamps, IF i = 1 THEN <<>> ELSE <<<<0, i - 1>>>>)]

\* the valid rows of n detectors: every sample, or none for the first detector
ValidRows(n, all) ==
    [i \in 1..n |-> RangesOf(MaxSamps, IF i = 1 /\ ~all THEN <<>> ELSE <<<<0, MaxSamps>>>>)]

MetricInputs ==
    {[pc |-> "ready", bandpass |-> bp, wafer_slot |-> ws, flags |-> FlagRows(Len(bp)),
      valid |-> ValidRows(Len(bp), all), timestamp |-> 0, flags_key |-> key,
      percentiles |-> p, tags |-> t, out |-> NoOut] :
        bp \in UNION {[1..n -> Range(Bandpasses)] : n \in 1..MaxMetDets},
        ws \in UNION {[1..n -> Range(WaferSlots)] : n \in 1..MaxMetDets},
        all \in BOOLEAN, key \in {Str(k) : k \in Strings(MaxKeyLen)} \cup {NoKey},
        p \in PercentileLists, t \in {<<>>, <<"wafer_slot", "det_id">>}}

\* a stage class calls gen_metric on the containers of a finished run
MetricCall ==
    /\ met.pc = "ready"
    /\ met' = [met EXCEPT !.pc = "done", !.out = GenMetric(met)]
    /\ UNCHANGED <<ex, reg, pipe, lastOp, run, drv, stg>>

InitMetric ==
    /\ ex = ExIdle /\ reg = <<>> /\ pipe = NoPipe /\ lastOp = NoOp /\ run = RunIdle
    /\ drv = DrvIdle /\ stg = StgIdle
    /\ \E m \in {x \in MetricInputs : Len(x.bandpass) = Len(x.wafer_slot)} : met = m

NextMetric == MetricCall

SpecMetric == InitMetric /\ [][NextMetric]_vars

\* C21: gen_metric raises ValueError for a missing flags_key and for one with
\* more than two dotted parts; a record it returns has values, timestamps and
\* tags of one length, (number of (bandpass, wafer slot) pairs) x (number of
\* percentiles + 1), and each pair's entries are one per percentile in the
\* order given, tagged percentile_<q>, followed by one tagged mean.
C21_MetricShape ==
    met.pc = "done" =>
        LET n == Len(met.percentiles)
            groups == Cardinality(Range(met.bandpass)) * Cardinality(Range(met.wafer_slot))
        IN /\ met.flags_key = NoKey => met.out = Err("ValueError")
           /\ (met.flags_key # NoKey /\
               Cardinality({i \in DOMAIN met.flags_key.s : met.flags_key.s[i] = "."}) > 1)
                 => met.out = Err("ValueError")
           /\ ~IsErr(met.out) =>
                 /\ Len(met.out.values) = groups * (n + 1)
                 /\ Len(met.out.timestamps) = groups * (n + 1)
                 /\ Len(met.out.tags) = groups * (n + 1)
                 /\ \A g \in 0..(groups - 1) :
                       /\ \A i \in 1..n :
                             /\ met.out.tags[g * (n + 1) + i].det_stat =
                                    "percentile_" \o ToString(met.percentiles[i])
                             /\ met.out.values[g * (n + 1) + i].stat = "percentile"
                             /\ met.out.values[g * (n + 1) + i].q = met.percentiles[i]
                       /\ met.out.tags[(g + 1) * (n + 1)].det_stat = "mean"
                       /\ met.out.values[(g + 1) * (n + 1)].stat = "mean"

\* a record of two groups and two percentiles was returned
C21_Witness ==
    /\ met.pc = "done" /\ ~IsErr(met.out)
    /\ Cardinality(Range(met.wafer_slot)) = 2
    /\ Len(met.percentiles) = 2
    /\ Len(met.out.values) = 6

(***************************************************************************)
(* site_pipeline/preprocess_tod.py: preprocess_tod runs the Pipeline once  *)
(* per detector group of one observation. The context, the archive policy, *)
(* the manifest database and lmsi are outside the files modelled; a group's*)
(* run is given by how it ends: it raises, or it returns a cause.          *)
(***************************************************************************)
\* number of groups of one observation
MaxGroups == 3

\* the groups get_groups can return, in its order
AllGroups == [i \in 1..MaxGroups |-> "ws" \o ToString(i - 1)]

\* how context.get_obs and pipe.run of one group can end: an exception, the
\* cause 'end', or the name of the stage that left no detector
RunEnds == {"raise", EndSentinel, "cut_stage"}

\* dest_dataset of a group of an observation
DatasetOf(obs, group) == <<obs, group>>

\* preprocess_tod at line 136, its group list settled and not empty
TodStart(obs, groups, run_parallel, make_lmsi, db) ==
    [pc |-> "groups", obs_id |-> obs, groups |-> groups, i |-> 0,
     run_parallel |-> run_parallel, make_lmsi |-> make_lmsi,
     n_fail |-> 0, outputs |-> <<>>, archive |-> {}, db |-> db, db0 |-> db,
     new_plots |-> FALSE, log |-> <<>>, ends |-> <<>>, result |-> NoOut]

\* the group is logged and skipped
TodFail(t, group, how) ==
    [t EXCEPT !.n_fail = @ + 1, !.i = @ + 1,
              !.log = Append(@, [group |-> group, msg |-> "ERROR"]),
              !.ends = Append(@, how),
              !.new_plots = @ \/ (t.make_lmsi /\ how # "raise")]

\* the group's product is saved and indexed
TodSave(t, group) ==
    [t EXCEPT !.i = @ + 1,
              !.ends = Append(@, EndSentinel),
              !.new_plots = @ \/ t.make_lmsi,
              !.archive = @ \cup {DatasetOf(t.obs_id, group)},
              !.outputs = IF t.run_parallel
                          THEN Append(@, DatasetOf(t.obs_id, group)) ELSE @,
              !.db = IF t.run_parallel THEN @ ELSE @ \cup {DatasetOf(t.obs_id, group)}]

\* one iteration of the loop over groups, the group's run ending as how
TodGroup(t, how) ==
    IF how = "raise" THEN TodFail(t, At(t.groups, t.i), how)
    ELSE IF how # EndSentinel THEN TodFail(t, At(t.groups, t.i), how)
    ELSE TodSave(t, At(t.groups, t.i))

\* the end of preprocess_tod
TodReturn(t) ==
    IF t.run_parallel
    THEN IF t.n_fail = Len(t.groups)
         THEN [t EXCEPT !.pc = "done",
                        !.log = Append(@, [group |-> "all groups", msg |-> "ERROR"]),
                        !.result = [kind |-> "tuple", error |-> "all_fail",
                                    outputs |-> <<t.obs_id, "all groups">>]]
         ELSE [t EXCEPT !.pc = "done",
                        !.result = [kind |-> "tuple", error |-> None, outputs |-> t.outputs]]
    ELSE [t EXCEPT !.pc = "done", !.result = [kind |-> "NoneType"]]

\* after the loop: the lmsi index over new_plots, then the return
TodFinish(t) ==
    IF t.make_lmsi /\ ~t.new_plots
    THEN [t EXCEPT !.pc = "raised", !.result = Err("UnboundLocalError")]
    ELSE TodReturn(t)

TodInputs ==
    {TodStart("obs0", g, p, l, db) :
        g \in SubSeqs(AllGroups) \ {<<>>}, p \in BOOLEAN, l \in BOOLEAN,
        db \in {{}, {DatasetOf("obs0", AllGroups[1])}}}

\* one group is loaded and run
TodGroupStep ==
    /\ drv.pc = "groups" /\ drv.i < Len(drv.groups)
    /\ \E how \in RunEnds : drv' = TodGroup(drv, how)
    /\ UNCHANGED <<ex, reg, pipe, lastOp, run, met, stg>>

\* the loop is over
TodFinishStep ==
    /\ drv.pc = "groups" /\ drv.i = Len(drv.groups)
    /\ drv' = TodFinish(drv)
    /\ UNCHANGED <<ex, reg, pipe, lastOp, run, met, stg>>

InitTod ==
    /\ ex = ExIdle /\ reg = <<>> /\ pipe = NoPipe /\ lastOp = NoOp /\ run = RunIdle
    /\ met = MetIdle /\ stg = StgIdle
    /\ drv \in TodInputs

NextTod == TodGroupStep \/ TodFinishStep

SpecTod == InitTod /\ [][NextTod]_vars

\* the 0-based positions of the groups whose run raised or was cut
FailedGroups(t) == {k \in 0..(Len(t.ends) - 1) : At(t.ends, k) # EndSentinel}

\* C22: when preprocess_tod is over every group was processed; a group whose
\* run raised or returned a cause other than 'end' has an ERROR log line, no
\* dataset in the archive, no new database entry and no output record, and
\* n_fail counts these groups; with run_parallel the function returns the
\* error 'all_fail' exactly when every group failed.
C22_Original ==
    drv.pc \in {"done", "raised"} =>
        /\ Len(drv.ends) = Len(drv.groups)
        /\ drv.n_fail = Cardinality(FailedGroups(drv))
        /\ \A k \in FailedGroups(drv) :
              /\ DatasetOf(drv.obs_id, At(drv.groups, k)) \notin drv.archive
              /\ DatasetOf(drv.obs_id, At(drv.groups, k)) \notin (drv.db \ drv.db0)
              /\ DatasetOf(drv.obs_id, At(drv.groups, k)) \notin Range(drv.outputs)
              /\ \E j \in DOMAIN drv.log : drv.log[j].group = At(drv.groups, k)
        /\ drv.run_parallel =>
              ((drv.pc = "done" /\ drv.result.error = "all_fail")
                  <=> FailedGroups(drv) = 0..(Len(drv.groups) - 1))

(***************************************************************************)
(* Further properties of Pipeline.run, checked under Spec.                 *)
(***************************************************************************)
\* stage k's update_full_aman was called in the step to r2 and returned
UpdateDone(r2, k) ==
    /\ <<k, "update_full_aman">> \in Range(r2.trace)
    /\ ~(r2.pc = "raised" /\ r2.trace[Len(r2.trace)] = <<k, "update_full_aman">>)

\* stage k's update_full_aman was called in the step to r2 and raised
UpdateRaised(r2, k) ==
    /\ r2.trace # <<>>
    /\ r2.pc = "raised" /\ r2.trace[Len(r2.trace)] = <<k, "update_full_aman">>

\* C23: in compute mode, once the reconciliation of an executed stage has
\* returned, full has every field name of the product, and the names the
\* step added to full are exactly the product's names full did not have.
C23_AccumulatorComplete ==
    [][(run.pc = "loop" /\ run.run_calc /\ UpdateDone(run', run.step))
       => /\ FieldNames(run'.proc_aman) \subseteq FieldNames(run'.full)
          /\ FieldNames(run'.full) \ FieldNames(run.full)
                 = FieldNames(run'.proc_aman) \ FieldNames(run.full)]_vars

\* two stages have added a field each and full has both
C23_Witness ==
    /\ run.pc = "returned" /\ run.run_calc
    /\ UpdateDone(run, 2)
    /\ {"f1", "f2"} \subseteq FieldNames(run.proc_aman)
    /\ FieldNames(run.full) = FieldNames(run.proc_aman)

\* C24: a value at the product's top level that is not a container makes the
\* next reconciliation raise AssertionError; the new fields before it in the
\* product's order are in full by then, and it is not.
C24_TopLevelContainers ==
    [][(run.pc = "loop" /\ run.run_calc
        /\ <<run.step, "update_full_aman">> \in Range(run'.trace)
        /\ \E i \in DOMAIN run'.proc_aman.fields :
              /\ run'.proc_aman.fields[i].val.kind # "AxisManager"
              /\ run'.proc_aman.fields[i].name \notin FieldNames(run.full))
       => /\ UpdateRaised(run', run.step) /\ run'.exc = "AssertionError"
          /\ LET bad == CHOOSE i \in DOMAIN run'.proc_aman.fields :
                           /\ run'.proc_aman.fields[i].val.kind # "AxisManager"
                           /\ run'.proc_aman.fields[i].name \notin FieldNames(run.full)
                           /\ \A j \in 1..(i - 1) :
                                 \/ run'.proc_aman.fields[j].val.kind = "AxisManager"
                                 \/ run'.proc_aman.fields[j].name \in FieldNames(run.full)
             IN /\ \A j \in 1..(bad - 1) :
                      run'.proc_aman.fields[j].name \in FieldNames(run'.full)
                /\ \A j \in bad..Len(run'.proc_aman.fields) :
                      run'.proc_aman.fields[j].name \notin FieldNames(run'.full)
                         \/ run'.proc_aman.fields[j].name \in FieldNames(run.full)]_vars

\* stage 2 wrapped an array after its own field: the reconciliation raised,
\* and full has f1 and f2 but not the array
C24_Witness ==
    /\ UpdateRaised(run, 2) /\ run.exc = "AssertionError"
    /\ {"f1", "f2"} \subseteq FieldNames(run.full)
    /\ ArrayOf(2) \in FieldNames(run.proc_aman)
    /\ ArrayOf(2) \notin FieldNames(run.full)

\* the number of plot calls made for stage k
PlotCalls(r, k) == Cardinality({i \in DOMAIN r.plots : r.plots[i].stage = k})

\* C25: a stage whose iteration was carried out has had plot called exactly
\* once in compute mode, whatever update_plot was passed; in resumed mode
\* once if update_plot was passed true and never otherwise. The filename of
\* every plot call is <plot_dir>/{ctime}/{obsid}/<n>_{name}.png with n the
\* stage's 1-based position in the list, skipped stages counted.
C25_PlotCalls ==
    run.pc \in {"loop", "returned", "raised"} =>
        /\ \A k \in 1..Len(run.stages) :
              <<k, "check">> \in Range(run.trace) =>
                  PlotCalls(run, k) =
                      (IF run.proc0 = NoProduct THEN 1
                       ELSE IF run.update_plot_arg THEN 1 ELSE 0)
        /\ \A i \in DOMAIN run.plots :
              run.plots[i].filename =
                  <<"plot_dir", "{ctime}", "{obsid}",
                    ToString(run.plots[i].stage) \o "_{name}.png">>

\* a compute-mode run on simulation, called with update_plot true, skipped
\* stage 2 and plotted stage 3 once
C25_Witness ==
    /\ run.pc = "returned" /\ run.sim /\ run.proc0 = NoProduct /\ run.update_plot_arg
    /\ <<3, "check">> \in Range(run.trace)
    /\ PlotCalls(run, 2) = 0 /\ PlotCalls(run, 3) = 1

(***************************************************************************)
(* _Preprocess.__init__ and the base hooks, over configurations whose keys *)
(* can hold None (a YAML key without a value) as well as a mapping.        *)
(***************************************************************************)
\* a sub-configuration: the empty mapping
EmptyCfg == "{}"

\* step_cfgs.get(key)
CfgGet(step_cfgs, key) == IF key \in DOMAIN step_cfgs THEN step_cfgs[key] ELSE None

\* _Preprocess.__init__(step_cfgs)
PreprocessInit(step_cfgs) ==
    [process_cfgs |-> CfgGet(step_cfgs, "process"),
     calc_cfgs |-> CfgGet(step_cfgs, "calc"),
     save_cfgs |-> CfgGet(step_cfgs, "save"),
     select_cfgs |-> CfgGet(step_cfgs, "select"),
     plot_cfgs |-> CfgGet(step_cfgs, "plot"),
     skip_on_sim |-> IF "skip_on_sim" \in DOMAIN step_cfgs
                     THEN step_cfgs["skip_on_sim"] ELSE FALSE]

\* the attribute a base hook tests
CfgsOf(inst, hook) ==
    IF hook = "process" THEN inst.process_cfgs
    ELSE IF hook = "calc_and_save" THEN inst.calc_cfgs
    ELSE IF hook = "save" THEN inst.save_cfgs
    ELSE IF hook = "select" THEN inst.select_cfgs
    ELSE inst.plot_cfgs

\* a hook of _Preprocess itself, called on the instance inst
BaseCall(inst, hook) ==
    IF CfgsOf(inst, hook) = None
    THEN (IF hook = "select" THEN "return meta" ELSE "return")
    ELSE "NotImplementedError"

\* the configurations of a stage: each hook key absent, None or a mapping,
\* skip_on_sim absent or a boolean
StepCfgs ==
    UNION {[keys -> {None, EmptyCfg}] : keys \in SUBSET HookKeys}

WithSkip(d, skip) ==
    [k \in DOMAIN d \cup {"skip_on_sim"} |-> IF k = "skip_on_sim" THEN skip ELSE d[k]]

\* the stage is built from its configuration
StageConstruct ==
    /\ stg.pc = "cfg"
    /\ stg' = [stg EXCEPT !.pc = "made", !.inst = PreprocessInit(stg.step_cfgs)]
    /\ UNCHANGED <<ex, reg, pipe, lastOp, run, met, drv>>

\* one of its hooks is called
HookCall ==
    /\ stg.pc = "made"
    /\ \E hook \in Hooks :
          stg' = [stg EXCEPT !.pc = "called", !.hook = hook,
                             !.res = BaseCall(stg.inst, hook)]
    /\ UNCHANGED <<ex, reg, pipe, lastOp, run, met, drv>>

InitHooks ==
    /\ ex = ExIdle /\ reg = <<>> /\ pipe = NoPipe /\ lastOp = NoOp /\ run = RunIdle
    /\ met = MetIdle /\ drv = DrvIdle
    /\ \E d \in StepCfgs \cup {WithSkip(c, b) : c \in StepCfgs, b \in BOOLEAN} :
          stg = [pc |-> "cfg", step_cfgs |-> d, inst |-> NoOut, hook |-> "none",
                 res |-> "none"]

NextHooks == StageConstruct \/ HookCall

SpecHooks == InitHooks /\ [][NextHooks]_vars

\* C26: a base hook goes past its gate (and so raises NotImplementedError)
\* exactly when its key is in the configuration mapping, whatever value the
\* key holds, None included; without the key it returns at once.
C26_Original ==
    stg.pc = "called" =>
        (HookKey(stg.hook) \in DOMAIN stg.step_cfgs <=> stg.res = "NotImplementedError")

(***************************************************************************)
(* Further properties of the reconciliation engine, under SpecExpand.      *)
(***************************************************************************)
\* the (row, column, value) triples a csr_array stores
CsrTriples(m) == {<<CsrRows(m)[q], m.indices[q], m.data[q]>> : q \in DOMAIN m.data}

\* C27: in the output of _expand for S cut out of F, a dense cell, a flag and
\* a stored sparse entry outside (S's entities x S's samples) is zero,
\* unflagged, absent; inside, it is S's cell, with the row taken through the
\* entity mapping and the column shifted by the sample offset. A dimension
\* that is neither the entity nor the sample axis is copied whole.
C27_ZeroFill ==
    (ex.pc = "expanded" /\ ex.variant \in {"both", "binned"} /\ ~IsErr(ex.out)) =>
        LET dets == {i \in 0..(Len(AllDets) - 1) : AllDets[i + 1] \in Range(ex.keep)}
            samps == {j \in 0..(MaxSamps - 1) : ex.a <= FullOffset + j /\ FullOffset + j < ex.b}
            shift == ex.a - FullOffset
            subRow(i) == PosOf(ex.sub.axes.dets.vals, AllDets[i + 1]) - 1
        IN /\ ex.variant = "both" =>
                /\ \A t \in Tuples(FullShape) :
                      GetField(ex.out, "arr").data[t] =
                          (IF t[1] \in dets /\ t[2] \in samps
                           THEN GetField(ex.sub, "arr").data[<<subRow(t[1]), t[2] - shift>>]
                           ELSE 0)
                /\ \A i \in 0..(Len(AllDets) - 1) :
                      /\ i \notin dets => GetField(ex.out, "flags").ranges[i + 1].ivals = <<>>
                      /\ i \in dets =>
                            \A j \in 0..(MaxSamps - 1) :
                                Mask(GetField(ex.out, "flags").ranges[i + 1])[j + 1]
                                    <=> /\ j \in samps
                                        /\ Mask(GetField(ex.sub, "flags").ranges[subRow(i) + 1])
                                               [j - shift + 1]
                /\ Len(GetField(ex.out, "sp").data) = Len(GetField(ex.sub, "sp").data)
                /\ CsrTriples(GetField(ex.out, "sp")) =
                       {<<PosOf(AllDets, ex.sub.axes.dets.vals[t[1] + 1]) - 1, t[2] + shift, t[3]>> :
                           t \in CsrTriples(GetField(ex.sub, "sp"))}
           /\ ex.variant = "binned" =>
                \A t \in Tuples(<<Len(AllDets), MaxBins>>) :
                    GetField(ex.out, "hist").data[t] =
                        (IF t[1] \in dets
                         THEN GetField(ex.sub, "hist").data[<<subRow(t[1]), t[2]>>]
                         ELSE 0)

\* a strict, non-empty entity subset and sample range with a nonzero cell
\* inside the window and one outside it
C27_Witness ==
    /\ ex.pc = "expanded" /\ ex.variant = "both" /\ ~IsErr(ex.out)
    /\ Len(ex.keep) \in 1..(Len(AllDets) - 1)
    /\ FullOffset < ex.a /\ ex.a < ex.b
    /\ Len(GetField(ex.out, "sp").data) > 0
    /\ Len(GetField(ex.out, "sp").data) < Cardinality(ex.cells)
    /\ \E t \in Tuples(FullShape) : GetField(ex.out, "arr").data[t] = 0 /\ t \in ex.cells

\* the container c, or a container inside it, has a field named 'valid'
RECURSIVE HasValid(_)
HasValid(c) ==
    \/ "valid" \in FieldNames(c)
    \/ \E i \in DOMAIN c.fields :
          c.fields[i].val.kind = "AxisManager" /\ HasValid(c.fields[i].val)

\* C28: with wrap_valid false, what update_full_aman adds to the full frame
\* has no 'valid' field at any depth.
C28_Original ==
    (ex.pc = "expanded" /\ ~ex.wrap_valid /\ ~IsErr(ex.upd.err)) => ~HasValid(ex.upd.full)

(***************************************************************************)
(* Validity of the accumulated fields of a run (under Spec).               *)
(***************************************************************************)
\* the entities the 'valid' field of the container c marks
ValidDets(c) ==
    {AllDets[i] : i \in {j \in 1..Len(AllDets) : GetField(c, "valid").ranges[j].ivals # <<>>}}

\* C29: in a compute-mode run with select=True (and wrap_valid), the field a
\* stage adds to full marks as valid exactly the entities the product (and
\* raw) container had when the stage began, cut entities are valid in no
\* later field, and a later field's valid entities are among those of every
\* earlier field.
C29_ValidityTracksSelection ==
    [][(run.pc = "loop" /\ run.run_calc /\ run.select /\ run.wrap_valid)
       => \A n \in FieldNames(run'.full) \ FieldNames(run.full) :
             /\ "valid" \in FieldNames(GetField(run'.full, n))
             /\ ValidDets(GetField(run'.full, n)) = Range(run.proc_aman.axes.dets.vals)
             /\ ValidDets(GetField(run'.full, n)) = Range(run.aman.axes.dets.vals)
             /\ \A m \in FieldNames(run.full) :
                   ValidDets(GetField(run'.full, n)) \subseteq ValidDets(GetField(run.full, m))]_vars

\* stage 1 cut d1: f1 is valid for every entity, f2 for d0 and d2 only
C29_Witness ==
    /\ run.pc = "returned" /\ run.run_calc /\ run.select /\ run.wrap_valid
    /\ {"f1", "f2"} \subseteq FieldNames(run.full)
    /\ ValidDets(GetField(run.full, "f1")) = Range(AllDets)
    /\ ValidDets(GetField(run.full, "f2")) = {"d0", "d2"}

(***************************************************************************)
(* site_pipeline/preprocess_tod.py, main: one worker process per           *)
(* observation runs preprocess_tod(run_parallel=True) on a temporary       *)
(* archive; the parent handles the futures as they complete. The final     *)
(* archive is the set of its datasets, a temporary archive the set a       *)
(* worker's preprocess_tod has saved, the manifest database the list of    *)
(* its entries.                                                            *)
(***************************************************************************)
\* number of observations of the run list
MaxObs == 2
\* number of groups of an observation given to a worker
MaxWorkerGroups == 2

ObsIds == {"obs" \o ToString(i - 1) : i \in 1..MaxObs}

\* the group lists left to a worker after lines 93-114: none, one, ...
WorkerGroups == {SubSeq(AllGroups, 1, n) : n \in 0..MaxWorkerGroups}

NoCur == [obs |-> "none"]

\* db.inspect(db_data) is empty: db.add_entry(db_data, h5_path), always
IndexEntryAlways(db, db_data) == Append(db, db_data)

\* lines 414-415: the entry is added if the database has none for it
IndexEntry(db, db_data) == IF db_data \in Range(db) THEN db ELSE Append(db, db_data)

\* lines 116-122 and 136: preprocess_tod as a worker enters it
WorkerEnter(obs, groups, make_lmsi) ==
    IF groups = <<>>
    THEN [TodStart(obs, groups, TRUE, make_lmsi, {}) EXCEPT
              !.pc = "done",
              !.result = [kind |-> "tuple", error |-> "no_group_overlap",
                          outputs |-> <<None, None>>]]
    ELSE TodStart(obs, groups, TRUE, make_lmsi, {})

\* the datasets and entries an earlier run of main can have left behind
PriorDatasets == {{}, {DatasetOf("obs0", AllGroups[1])}}

MainInputs ==
    {[pc |-> "main", nproc |-> np, make_lmsi |-> l,
      groups |-> g, status |-> [o \in ObsIds |-> "queued"],
      w |-> [o \in ObsIds |-> NoOut],
      removed |-> {}, final |-> f, final0 |-> f,
      db |-> d0, db0 |-> d0, errlog |-> <<>>,
      yielded |-> {}, cur |-> NoCur, parent |-> "loop",
      actor |-> "none", acting |-> "none"] :
        np \in {1, MaxObs}, l \in BOOLEAN, g \in [ObsIds -> WorkerGroups],
        f \in PriorDatasets,
        d0 \in {<<>>, <<DatasetOf("obs0", AllGroups[1])>>}}

\* the executor starts a queued call when one of its nproc processes is free
WorkerStart ==
    /\ drv.pc = "main"
    /\ \E o \in ObsIds :
          /\ drv.status[o] = "queued"
          /\ Cardinality({p \in ObsIds : drv.status[p] = "running"}) < drv.nproc
          /\ drv' = [drv EXCEPT
                        !.w[o] = WorkerEnter(o, drv.groups[o], drv.make_lmsi),
                        !.status[o] = IF drv.groups[o] = <<>> THEN "finished" ELSE "running",
                        !.actor = "worker", !.acting = o]
    /\ UNCHANGED <<ex, reg, pipe, lastOp, run, met, stg>>

\* a worker loads and runs one group
WorkerGroup ==
    /\ drv.pc = "main"
    /\ \E o \in ObsIds :
          /\ drv.status[o] = "running" /\ drv.w[o].i < Len(drv.w[o].groups)
          /\ \E how \in RunEnds :
                drv' = [drv EXCEPT !.w[o] = TodGroup(drv.w[o], how),
                                   !.actor = "worker", !.acting = o]
    /\ UNCHANGED <<ex, reg, pipe, lastOp, run, met, stg>>

\* a worker's preprocess_tod ends: its future completes
WorkerFinish ==
    /\ drv.pc = "main"
    /\ \E o \in ObsIds :
          /\ drv.status[o] = "running" /\ drv.w[o].i = Len(drv.w[o].groups)
          /\ drv' = [drv EXCEPT !.w[o] = TodFinish(drv.w[o]),
                                !.status[o] = "finished",
                                !.actor = "worker", !.acting = o]
    /\ UNCHANGED <<ex, reg, pipe, lastOp, run, met, stg>>

\* one line of errlog.txt
ErrRecord(o, what) == [obs |-> o, err |-> what]

\* lines 378-390 and 418-422: as_completed yields a completed future and
\* the parent reads its result
ParentResult ==
    /\ drv.pc = "main" /\ drv.parent = "loop" /\ drv.cur = NoCur
    /\ \E o \in ObsIds :
          /\ drv.status[o] = "finished" /\ o \notin drv.yielded
          /\ drv' =
                IF drv.w[o].pc = "raised"
                THEN [drv EXCEPT !.errlog = Append(@, ErrRecord(o, "future.result() error")),
                                 !.yielded = @ \cup {o},
                                 !.actor = "parent", !.acting = o]
                ELSE IF drv.w[o].result.error = None
                THEN [drv EXCEPT !.cur = [obs |-> o, phase |-> "copy",
                                          todo |-> drv.w[o].archive,
                                          idx |-> 0],
                                 !.actor = "parent", !.acting = o]
                ELSE [drv EXCEPT !.errlog = Append(@, ErrRecord(o, drv.w[o].result.error)),
                                 !.yielded = @ \cup {o},
                                 !.actor = "parent", !.acting = o]
    /\ UNCHANGED <<ex, reg, pipe, lastOp, run, met, stg>>

\* lines 405-411: one dataset of the worker's file is copied into the final
\* archive; h5py refuses a name the destination already has
ParentCopy ==
    /\ drv.pc = "main" /\ drv.parent = "loop" /\ drv.cur # NoCur
    /\ drv.cur.phase = "copy"
    /\ \E dts \in drv.cur.todo :
          drv' = IF dts \in drv.final
                 THEN [drv EXCEPT !.parent = "crashed",
                                  !.actor = "parent", !.acting = drv.cur.obs]
                 ELSE [drv EXCEPT !.final = @ \cup {dts},
                                  !.cur.todo = @ \ {dts},
                                  !.cur.phase = IF drv.cur.todo = {dts} THEN "index" ELSE @,
                                  !.actor = "parent", !.acting = drv.cur.obs]
    /\ UNCHANGED <<ex, reg, pipe, lastOp, run, met, stg>>

\* lines 412-415: one of the worker's output records is indexed
ParentIndex ==
    /\ drv.pc = "main" /\ drv.parent = "loop" /\ drv.cur # NoCur
    /\ drv.cur.phase = "index"
    /\ drv.cur.idx < Len(drv.w[drv.cur.obs].outputs)
    /\ drv' = [drv EXCEPT !.db = IndexEntry(@, At(drv.w[drv.cur.obs].outputs, drv.cur.idx)),
                          !.cur.idx = @ + 1,
                          !.actor = "parent", !.acting = drv.cur.obs]
    /\ UNCHANGED <<ex, reg, pipe, lastOp, run, met, stg>>

\* lines 416-417: os.remove(src_file)
ParentDelete ==
    /\ drv.pc = "main" /\ drv.parent = "loop" /\ drv.cur # NoCur
    /\ drv.cur.phase = "index"
    /\ drv.cur.idx = Len(drv.w[drv.cur.obs].outputs)
    /\ drv' = [drv EXCEPT !.removed = @ \cup {drv.cur.obs},
                          !.yielded = @ \cup {drv.cur.obs},
                          !.cur = NoCur,
                          !.actor = "parent", !.acting = drv.cur.obs]
    /\ UNCHANGED <<ex, reg, pipe, lastOp, run, met, stg>>

\* every future has been yielded: the executor block and main end
MainReturn ==
    /\ drv.pc = "main" /\ drv.parent = "loop" /\ drv.cur = NoCur
    /\ drv.yielded = ObsIds
    /\ drv' = [drv EXCEPT !.parent = "done", !.actor = "parent", !.acting = "none"]
    /\ UNCHANGED <<ex, reg, pipe, lastOp, run, met, stg>>

InitMain ==
    /\ ex = ExIdle /\ reg = <<>> /\ pipe = NoPipe /\ lastOp = NoOp /\ run = RunIdle
    /\ met = MetIdle /\ stg = StgIdle
    /\ drv \in MainInputs

NextMain ==
    \/ WorkerStart
    \/ WorkerGroup
    \/ WorkerFinish
    \/ ParentResult
    \/ ParentCopy
    \/ ParentIndex
    \/ ParentDelete
    \/ MainReturn

SpecMain == InitMain /\ [][NextMain]_vars

\* the worker of observation o ended with an error: its preprocess_tod
\* raised, or returned an error that is not None
WorkerFailed(d, o) == d.w[o].pc = "raised" \/ d.w[o].result.error # None

\* C30: a step of a worker changes neither the final archive, the database
\* nor the error log, deletes no file, and adds datasets of its own
\* observation to its own temporary archive only. The final archive and the
\* database change only in steps of the parent, for the one future it is
\* handling, whose worker returned no error: one dataset of that worker's
\* file is copied, or one of its output records is added, and only when the
\* database has no such entry. A temporary file is deleted only when all its
\* datasets are in the final archive and all its records in the database. A
\* worker that ended with an error has, once its future is handled, nothing
\* copied, nothing indexed, its file not deleted, and one error-log record.
C30_SingleWriter ==
    [][/\ drv'.actor = "worker" =>
             /\ drv'.final = drv.final /\ drv'.db = drv.db
             /\ drv'.errlog = drv.errlog /\ drv'.removed = drv.removed
             /\ \A p \in ObsIds \ {drv'.acting} : drv'.w[p] = drv.w[p]
             /\ \A ds \in drv'.w[drv'.acting].archive : ds[1] = drv'.acting
       /\ (drv'.final # drv.final \/ drv'.db # drv.db) =>
             /\ drv'.actor = "parent" /\ drv.cur # NoCur /\ drv'.acting = drv.cur.obs
             /\ ~WorkerFailed(drv, drv.cur.obs)
             /\ drv.final \subseteq drv'.final
             /\ drv'.final \ drv.final \subseteq drv.w[drv.cur.obs].archive
             /\ Cardinality(drv'.final \ drv.final) <= 1
             /\ drv'.db # drv.db =>
                   \E e \in Range(drv.w[drv.cur.obs].outputs) :
                       e \notin Range(drv.db) /\ drv'.db = Append(drv.db, e)
       /\ \A p \in drv'.removed \ drv.removed :
             /\ drv.w[p].archive \subseteq drv.final
             /\ Range(drv.w[p].outputs) \subseteq Range(drv.db)
       /\ \A p \in drv'.yielded :
             IF WorkerFailed(drv', p)
             THEN /\ \A ds \in drv'.final \ drv'.final0 : ds[1] # p
                  /\ \A i \in (Len(drv'.db0) + 1)..Len(drv'.db) : drv'.db[i][1] # p
                  /\ p \notin drv'.removed
                  /\ Cardinality({i \in DOMAIN drv'.errlog : drv'.errlog[i].obs = p}) = 1
             ELSE \A i \in DOMAIN drv'.errlog : drv'.errlog[i].obs # p]_vars

\* main is over: obs0's two datasets were copied, one of them was indexed
\* already and so only the other was added, and its file was deleted; obs1
\* failed in every group and has one line in the error log
C30_Witness ==
    /\ drv.pc = "main" /\ drv.parent = "done"
    /\ drv.removed = {"obs0"}
    /\ Len(drv.w["obs0"].outputs) = 2
    /\ drv.w["obs0"].archive \subseteq drv.final
    /\ Len(drv.db0) = 1 /\ Len(drv.db) = 2
    /\ drv.w["obs1"].result.error = "all_fail"
    /\ drv.errlog = <<ErrRecord("obs1", "all_fail")>>

====
